---- MODULE Spec2Model ----
(***************************************************************************)
(* A model of libqpdf/QPDF.cc: the document context (QPDF::Members), its   *)
(* object store, and the foreign-object copier (copyForeignObject,         *)
(* reserveObjects, replaceForeignIndirectObjects, copyStreamData) together *)
(* with the warning list and the stream-piping path used by copied streams.*)
(***************************************************************************)
EXTENDS Integers, Sequences, FiniteSets, TLC

VARIABLES
    objects,                      \* m->objects: per document, slot values indexed by object id
    object_copiers,               \* m->object_copiers: per document, unique id of source -> ObjCopier
    warnings,                     \* m->warnings: per document, the pending warnings
    max_warnings,                 \* m->max_warnings
    suppress_warnings,            \* m->suppress_warnings
    immediate_copy_from,          \* m->immediate_copy_from
    file_sp,                      \* m->file_sp: per document, the input source it points to
    inputs,                       \* the input-source objects alive in the process
    copied_stream_data_provider,  \* m->copied_stream_data_provider: per document
    unique_id,                    \* m->unique_id
    encp,                         \* m->encp: per document, its encryption parameters
    in_parse,                     \* m->in_parse
    fixed_dangling_refs,          \* m->fixed_dangling_refs
    check_mode,                   \* m->check_mode
    xref_resolves,                \* per document, the calls of xref_table().resolve() so far
    unique_id_counter,            \* the static std::atomic counter of QPDF::QPDF
    constructing,                 \* per thread, the constructor it runs and the documents it made
    last,                         \* the last operation invoked, its arguments and its outcome
    history                       \* what earlier copyForeignObject calls returned (history variable)

vars == << objects, object_copiers, warnings, max_warnings, suppress_warnings,
           immediate_copy_from, file_sp, inputs, copied_stream_data_provider,
           unique_id, encp, in_parse, fixed_dangling_refs, check_mode, xref_resolves,
           unique_id_counter, constructing, last, history >>

\* the part of the state the copier, the pipes and the input sources leave alone
context == << in_parse, fixed_dangling_refs, check_mode, xref_resolves,
              unique_id_counter, constructing >>

-----------------------------------------------------------------------------
(* Bounds of the model.                                                    *)

\* the largest number of indirect references one source container holds
MaxKids == 2

\* the pending warnings list is explored up to this length
MaxWarnings == 2

\* the number of input-source objects created in one run
MaxInputs == 3

\* the number of objects a document's store is grown to by newReserved and newIndirectNull
MaxObjects == 4

\* the most values the process-wide unique-id counter hands out
MaxIds == 4

-----------------------------------------------------------------------------
(* Documents, values and handles.                                          *)

Docs == {"D", "S"}

\* the identifiers of the source document's objects
ForeignIds == {1, 2, 3}

NoBuffer == [kind |-> "none", doc |-> "", og |-> 0]

\* a stream's data source: a buffer, a provider, or (offset, length) in the input
NoData == [buffer |-> NoBuffer, provider |-> "none", offset |-> 0, length |-> 0]

Value(t, type, items, data) == [t |-> t, type |-> type, items |-> items, data |-> data]

NullValue == Value("null", "", << >>, NoData)

ReservedValue == Value("reserved", "", << >>, NoData)

IntValue == Value("int", "", << >>, NoData)

\* an indirect handle names (document, identifier); a direct handle owns its value
Indirect(doc, og) == [ind |-> TRUE, doc |-> doc, og |-> og, val |-> NullValue]

Direct(val) == [ind |-> FALSE, doc |-> "", og |-> 0, val |-> val]

newNull == Direct(NullValue)

isIndirect(h) == h.ind

\* the value a handle resolves to; an identifier outside the store resolves to null
Resolve(objs, h) ==
    IF ~h.ind THEN h.val
    ELSE IF h.og \in DOMAIN objs[h.doc] THEN objs[h.doc][h.og]
    ELSE NullValue

getTypeCode(objs, h) == Resolve(objs, h).t

isStream(objs, h) == getTypeCode(objs, h) = "stream"

isNull(objs, h) == getTypeCode(objs, h) = "null"

isPageObject(objs, h) ==
    LET v == Resolve(objs, h) IN v.t = "dict" /\ v.type = "Page"

isPagesObject(objs, h) ==
    LET v == Resolve(objs, h) IN v.t = "dict" /\ v.type = "Pages"

\* a stream's dictionary, as a direct dictionary handle
getDict(objs, h) == Direct(Value("dict", "", Resolve(objs, h).items, NoData))

-----------------------------------------------------------------------------
(* The object store.                                                       *)

\* objects.make_indirect: allocate the next id and put the value in its slot
make_indirect(objs, doc, val) == [objs EXCEPT ![doc] = Append(@, val)]

next_id(objs, doc) == Len(objs[doc]) + 1

\* objects.replace: overwrite the slot's value, the identifier stays
replace(objs, doc, og, val) == [objs EXCEPT ![doc][og] = val]

-----------------------------------------------------------------------------
(* The exceptions the operations raise; "none" is a normal return.         *)

DirectHandleError == "logic_error: copyForeign called with direct object handle"

NotForeignError == "logic_error: copyForeign called with object from this QPDF"

VisitingNotEmptyError == "logic_error: obj_copier.visiting is not empty"

ForeignReservedError == "logic_error: attempting to copy a foreign reserved object"

ReplaceReservedError == "logic_error: replaceReserved called with non-reserved object"

IndirectReplacementError == "logic_error: replacement for foreign object is indirect"

NotAStreamError == "runtime_error: operation for stream attempted on another type"

NoRootError == "QPDFExc damaged_pdf: unable to find /Root dictionary"

NoPageTreeError == "QPDFExc damaged_pdf: unable to find page tree"

TooManyWarningsError == "damaged_pdf: Too many warnings - file is too badly damaged"

NoInputError == "logic_error: QPDF operation attempted on a QPDF object with no input source"

ReentrantParseError == "logic_error: QPDF: re-entrant parsing detected"

LogicErrors == {DirectHandleError, NotForeignError, VisitingNotEmptyError,
                ForeignReservedError, ReplaceReservedError, IndirectReplacementError,
                NoInputError, ReentrantParseError}

-----------------------------------------------------------------------------
(* ObjCopier and the state a copy_foreign_object call works on.            *)

EmptyMap == [og \in {} |-> newNull]

\* a default-constructed ObjCopier
NewObjCopier == [object_map |-> EmptyMap, to_copy |-> << >>, visiting |-> {}]

\* QPDFObjGen::set::add: false when the identifier is already in the set
visitingAdd(visiting, og) == og \notin visiting

\* QPDFObjGen::set::erase on a handle: a direct handle names no identifier
visitingErase(visiting, h) == IF h.ind THEN visiting \ {h.og} ELSE visiting

\* reserveChildrenOf without the descent into a stream's dictionary
reserveChildrenOf_noStreamDict(objs, foreign) ==
    IF getTypeCode(objs, foreign) \in {"array", "dict"} THEN Resolve(objs, foreign).items
    ELSE << >>

\* the children pass 1 recurses into: array items, dictionary values, a stream's dictionary
reserveChildrenOf(objs, foreign) ==
    LET foreign_tc == getTypeCode(objs, foreign) IN
    IF foreign_tc \in {"array", "dict"} THEN Resolve(objs, foreign).items
    ELSE IF foreign_tc = "stream" THEN << getDict(objs, foreign) >>
    ELSE << >>

\* reserveSlotValue making the slot with newReserved
reserveSlotValue_reserved(objs, foreign) ==
    IF isStream(objs, foreign) THEN Value("stream", "", << >>, NoData) ELSE ReservedValue

\* the local slot pass 1 creates for a newly met foreign indirect object
reserveSlotValue(objs, foreign) ==
    IF isStream(objs, foreign) THEN Value("stream", "", << >>, NoData) ELSE NullValue

\* alreadyReserved ending the traversal at every mapped object
alreadyReserved_always(objs, oc, foreign, top) == TRUE

\* alreadyReserved never ending the traversal at a mapped object
alreadyReserved_never(objs, oc, foreign, top) == FALSE

\* whether an already mapped foreign object ends the traversal here (line 708)
alreadyReserved(objs, oc, foreign, top) ==
    ~(top /\ isPageObject(objs, foreign) /\ isNull(objs, oc.object_map[foreign.og]))

\* reserveIndirect without the lookup in object_map at the top: a new slot for
\* the handle passed in, mapped before or not
reserveIndirect_noLookup(w, this, foreign, top) ==
    IF ~isIndirect(foreign) THEN [w |-> w, descend |-> TRUE]
    ELSE IF ~visitingAdd(w.oc.visiting, foreign.og) THEN [w |-> w, descend |-> FALSE]
    ELSE
      LET w1 == [w EXCEPT !.oc.visiting = @ \cup {foreign.og}]
          queued(x) == [x EXCEPT !.oc.to_copy = Append(@, foreign),
                                 !.descended = Append(@, foreign.og)]
      IN
      IF foreign.og \in DOMAIN w1.oc.object_map /\ ~top THEN
          [w |-> [w1 EXCEPT !.oc.visiting = visitingErase(@, foreign)], descend |-> FALSE]
      ELSE
          LET local == Indirect(this, next_id(w1.objects, this))
              w2 == [w1 EXCEPT
                       !.objects = make_indirect(@, this, reserveSlotValue(w1.objects, foreign)),
                       !.oc.object_map = [og \in DOMAIN @ \cup {foreign.og} |->
                                             IF og = foreign.og THEN local ELSE @[og]]]
          IN [w |-> queued(w2), descend |-> TRUE]

\* reserveIndirect queueing and entering a page met below the top
reserveIndirect_crossPages(w, this, foreign, top) ==
    IF ~isIndirect(foreign) THEN [w |-> w, descend |-> TRUE]
    ELSE IF ~visitingAdd(w.oc.visiting, foreign.og) THEN [w |-> w, descend |-> FALSE]
    ELSE
      LET w1 == [w EXCEPT !.oc.visiting = @ \cup {foreign.og}]
          queued(x) == [x EXCEPT !.oc.to_copy = Append(@, foreign),
                                 !.descended = Append(@, foreign.og)]
      IN
      IF foreign.og \in DOMAIN w1.oc.object_map THEN
          IF alreadyReserved(w1.objects, w1.oc, foreign, top)
          THEN [w |-> [w1 EXCEPT !.oc.visiting = visitingErase(@, foreign)],
                descend |-> FALSE]
          ELSE [w |-> queued(w1), descend |-> TRUE]
      ELSE
          LET local == Indirect(this, next_id(w1.objects, this))
              w2 == [w1 EXCEPT
                       !.objects = make_indirect(@, this, reserveSlotValue(w1.objects, foreign)),
                       !.oc.object_map = (foreign.og :> local) @@ @]
          IN [w |-> queued(w2), descend |-> TRUE]

\* the indirect part of reserveObjects: w is the call's working state
\* (see CallState); descend says whether the traversal goes on into the children
reserveIndirect(w, this, foreign, top) ==
    IF ~isIndirect(foreign) THEN [w |-> w, descend |-> TRUE]
    ELSE IF ~visitingAdd(w.oc.visiting, foreign.og) THEN [w |-> w, descend |-> FALSE]
    ELSE
      LET w1 == [w EXCEPT !.oc.visiting = @ \cup {foreign.og}]
          queued(x) == [x EXCEPT !.oc.to_copy = Append(@, foreign),
                                 !.descended = Append(@, foreign.og)]
      IN
      IF foreign.og \in DOMAIN w1.oc.object_map THEN
          IF alreadyReserved(w1.objects, w1.oc, foreign, top)
          THEN [w |-> [w1 EXCEPT !.oc.visiting = visitingErase(@, foreign)],
                descend |-> FALSE]
          ELSE [w |-> queued(w1), descend |-> TRUE]
      ELSE
          LET local == Indirect(this, next_id(w1.objects, this))
              w2 == [w1 EXCEPT
                       !.objects = make_indirect(@, this, reserveSlotValue(w1.objects, foreign)),
                       !.oc.object_map = (foreign.og :> local) @@ @]
          IN
          IF (~top) /\ isPageObject(w2.objects, foreign)
          THEN [w |-> [w2 EXCEPT !.oc.visiting = visitingErase(@, foreign)],
                descend |-> FALSE]
          ELSE [w |-> queued(w2), descend |-> TRUE]

RECURSIVE reserveObjects(_, _, _, _)
RECURSIVE reserveEach(_, _, _)

\* reserveObjects without the refusal of a foreign Reserved value
reserveObjects_noReservedCheck(w, this, foreign, top) ==
    IF w.exc # "none" THEN w
    ELSE IF isPagesObject(w.objects, foreign) THEN w
    ELSE
      LET e == reserveIndirect(w, this, foreign, top) IN
      IF ~e.descend THEN e.w
      ELSE
        LET c == reserveEach(e.w, this, reserveChildrenOf(e.w.objects, foreign)) IN
        IF c.exc # "none" THEN c
        ELSE [c EXCEPT !.oc.visiting = visitingErase(@, foreign)]

\* the loops of reserveObjects over the children, in order
reserveEach(w, this, items) ==
    IF items = << >> THEN w
    ELSE reserveEach(reserveObjects(w, this, Head(items), FALSE), this, Tail(items))

\* pass 1: reserve a local slot for every foreign indirect object reached
reserveObjects(w, this, foreign, top) ==
    IF w.exc # "none" THEN w
    ELSE IF getTypeCode(w.objects, foreign) = "reserved"
    THEN [w EXCEPT !.exc = ForeignReservedError]
    ELSE IF isPagesObject(w.objects, foreign) THEN w
    ELSE
      LET e == reserveIndirect(w, this, foreign, top) IN
      IF ~e.descend THEN e.w
      ELSE
        LET c == reserveEach(e.w, this, reserveChildrenOf(e.w.objects, foreign)) IN
        IF c.exc # "none" THEN c
        ELSE [c EXCEPT !.oc.visiting = visitingErase(@, foreign)]

-----------------------------------------------------------------------------
(* Pass 2: rewriting the queued objects.                                   *)

\* a default-constructed CopiedStreamDataProvider, and the absent one (nullptr)
NoProvider == [exists |-> FALSE, foreign_streams |-> EmptyMap, foreign_stream_data |-> EmptyMap]

NewProvider == [NoProvider EXCEPT !.exists = TRUE]

\* the ForeignStreamData record built for an input-backed foreign stream
ForeignStreamData(src, foreign_og, data, local_dict) ==
    [encp |-> src, file |-> file_sp[src], foreign_og |-> foreign_og,
     offset |-> data.offset, length |-> data.length, local_dict |-> local_dict]

\* the buffer foreign.getRawStreamData() yields for the stream (doc, og)
RawDataBuffer(doc, og) == [kind |-> "raw", doc |-> doc, og |-> og]

\* copyStreamData asking for the source stream's provider before immediate_copy_from
copyStreamData_providerFirst(w, this, result, foreign) ==
    LET w0 == IF w.csdp.exists THEN w ELSE [w EXCEPT !.csdp = NewProvider]
        src == foreign.doc
        stream == Resolve(w0.objects, foreign)
        immediate == /\ immediate_copy_from[src] /\ stream.data.buffer = NoBuffer
                     /\ stream.data.provider = "none"
        w1 == IF immediate
              THEN [w0 EXCEPT !.objects[src][foreign.og].data =
                        [@ EXCEPT !.buffer = RawDataBuffer(src, foreign.og)]]
              ELSE w0
        data == Resolve(w1.objects, foreign).data
        local_dict == Resolve(w1.objects, result).items
    IN
    IF data.buffer # NoBuffer
    THEN [w1 EXCEPT !.objects[this][result.og].data =
              [NoData EXCEPT !.buffer = data.buffer]]
    ELSE IF data.provider # "none"
    THEN [w1 EXCEPT !.csdp.foreign_streams = (result.og :> foreign) @@ @,
                    !.objects[this][result.og].data =
                        [NoData EXCEPT !.provider = "copied"]]
    ELSE [w1 EXCEPT !.csdp.foreign_stream_data =
                        (result.og :> ForeignStreamData(src, foreign.og, data, local_dict)) @@ @,
                    !.objects[this][result.og].data =
                        [NoData EXCEPT !.provider = "copied"]]

\* copyStreamData pulling the source stream's data into a buffer whatever
\* immediate_copy_from says
copyStreamData_alwaysImmediate(w, this, result, foreign) ==
    LET w0 == IF w.csdp.exists THEN w ELSE [w EXCEPT !.csdp = NewProvider]
        src == foreign.doc
        stream == Resolve(w0.objects, foreign)
        immediate == stream.data.buffer = NoBuffer
        w1 == IF immediate
              THEN [w0 EXCEPT !.objects[src][foreign.og].data =
                        [@ EXCEPT !.buffer = RawDataBuffer(src, foreign.og),
                                  !.provider = "none"]]
              ELSE w0
        data == Resolve(w1.objects, foreign).data
        local_dict == Resolve(w1.objects, result).items
    IN
    IF data.buffer # NoBuffer
    THEN [w1 EXCEPT !.objects[this][result.og].data =
              [NoData EXCEPT !.buffer = data.buffer]]
    ELSE IF data.provider # "none"
    THEN [w1 EXCEPT !.csdp.foreign_streams = (result.og :> foreign) @@ @,
                    !.objects[this][result.og].data =
                        [NoData EXCEPT !.provider = "copied"]]
    ELSE [w1 EXCEPT !.csdp.foreign_stream_data =
                        (result.og :> ForeignStreamData(src, foreign.og, data, local_dict)) @@ @,
                    !.objects[this][result.og].data =
                        [NoData EXCEPT !.provider = "copied"]]

\* copyStreamData: install on the local stream `result` a data source that
\* yields the foreign stream's data
copyStreamData(w, this, result, foreign) ==
    LET w0 == IF w.csdp.exists THEN w ELSE [w EXCEPT !.csdp = NewProvider]
        src == foreign.doc
        stream == Resolve(w0.objects, foreign)
        immediate == immediate_copy_from[src] /\ stream.data.buffer = NoBuffer
        w1 == IF immediate
              THEN [w0 EXCEPT !.objects[src][foreign.og].data =
                        [@ EXCEPT !.buffer = RawDataBuffer(src, foreign.og),
                                  !.provider = "none"]]
              ELSE w0
        data == Resolve(w1.objects, foreign).data
        local_dict == Resolve(w1.objects, result).items
    IN
    IF data.buffer # NoBuffer
    THEN [w1 EXCEPT !.objects[this][result.og].data =
              [NoData EXCEPT !.buffer = data.buffer]]
    ELSE IF data.provider # "none"
    THEN [w1 EXCEPT !.csdp.foreign_streams = (result.og :> foreign) @@ @,
                    !.objects[this][result.og].data =
                        [NoData EXCEPT !.provider = "copied"]]
    ELSE [w1 EXCEPT !.csdp.foreign_stream_data =
                        (result.og :> ForeignStreamData(src, foreign.og, data, local_dict)) @@ @,
                    !.objects[this][result.og].data =
                        [NoData EXCEPT !.provider = "copied"]]

\* replaceIndirect keeping the foreign object id in the local handle
replaceIndirect_sameId(oc, this, foreign) ==
    IF foreign.og \notin DOMAIN oc.object_map THEN newNull
    ELSE Indirect(this, foreign.og)

\* replaceIndirect handing back the foreign handle of a mapped object
replaceIndirect_untranslated(oc, this, foreign) ==
    IF foreign.og \notin DOMAIN oc.object_map THEN newNull
    ELSE foreign

\* replaceIndirect leaving a reference to an unmapped object as it is
replaceIndirect_unmappedKept(oc, this, foreign) ==
    IF foreign.og \notin DOMAIN oc.object_map THEN foreign
    ELSE oc.object_map[foreign.og]

\* the replacement of a non-top indirect reference (lines 749-759)
replaceIndirect(oc, this, foreign) ==
    IF foreign.og \notin DOMAIN oc.object_map THEN newNull
    ELSE oc.object_map[foreign.og]

RECURSIVE replaceForeignIndirectObjects(_, _, _, _)
RECURSIVE replaceEach(_, _, _, _)

\* the loops of replaceForeignIndirectObjects over the children: [w, items]
replaceEach(w, this, items, done) ==
    IF items = << >> \/ w.exc # "none" THEN [w |-> w, items |-> done]
    ELSE LET r == replaceForeignIndirectObjects(w, this, Head(items), FALSE)
         IN replaceEach(r.w, this, Tail(items), Append(done, r.result))

\* pass 2 for one handle: [w, result] where result is the local replacement
replaceForeignIndirectObjects(w0, this, foreign, top) ==
    LET w == [w0 EXCEPT !.rewrites = @ + 1]
        foreign_tc == getTypeCode(w.objects, foreign)
        v == Resolve(w.objects, foreign)
        r == IF (~top) /\ isIndirect(foreign)
             THEN [w |-> w, result |-> replaceIndirect(w.oc, this, foreign)]
             ELSE IF foreign_tc \in {"array", "dict"}
             THEN LET k == replaceEach(w, this, v.items, << >>)
                  IN [w |-> k.w,
                      result |-> Direct(Value(foreign_tc, v.type, k.items, NoData))]
             ELSE IF foreign_tc = "stream"
             THEN LET result == replaceIndirect(w.oc, this, foreign) IN
                  IF ~isStream(w.objects, result)
                  THEN [w |-> [w EXCEPT !.exc = NotAStreamError], result |-> result]
                  ELSE LET k == replaceEach(w, this, v.items, << >>)
                           w1 == IF k.w.exc # "none" THEN k.w
                                 ELSE [k.w EXCEPT !.objects[this][result.og].items = k.items]
                       IN [w |-> IF w1.exc # "none" THEN w1
                                 ELSE copyStreamData(w1, this, result, foreign),
                           result |-> result]
             ELSE [w |-> w, result |-> Direct(v)]
    IN
    IF r.w.exc # "none" THEN r
    ELSE IF top /\ (~isStream(r.w.objects, r.result)) /\ isIndirect(r.result)
    THEN [r EXCEPT !.w.exc = IndirectReplacementError]
    ELSE r

\* replaceReserved without the test of the slot's type code
replaceReserved_noCheck(w, this, reserved, replacement) ==
    [w EXCEPT !.objects = replace(@, this, reserved.og, Resolve(w.objects, replacement))]

\* replaceReserved: the slot must hold Reserved or Null; then objects.replace
replaceReserved(w, this, reserved, replacement) ==
    IF getTypeCode(w.objects, reserved) \notin {"reserved", "null"}
    THEN [w EXCEPT !.exc = ReplaceReservedError]
    ELSE [w EXCEPT !.objects = replace(@, this, reserved.og, Resolve(w.objects, replacement))]

RECURSIVE copyEach(_, _, _)

\* the loop of copyForeignObject over obj_copier.to_copy (lines 669-675)
copyEach(w, this, items) ==
    IF items = << >> \/ w.exc # "none" THEN w
    ELSE
      LET to_copy == Head(items)
          r == replaceForeignIndirectObjects(w, this, to_copy, TRUE)
          w1 == IF r.w.exc # "none" \/ isStream(r.w.objects, to_copy) THEN r.w
                ELSE replaceReserved(r.w, this, r.w.oc.object_map[to_copy.og], r.result)
      IN copyEach(w1, this, Tail(items))

-----------------------------------------------------------------------------
(* Warnings.                                                               *)

\* damagedPDF(message): a qpdf_e_damaged_pdf record named after m->file
damagedPDF(this, message) ==
    [code |-> "damaged_pdf", filename |-> inputs[file_sp[this]].name, message |-> message]

PagesWarning == "unexpected reference to /Pages object while copying foreign object"

\* warn raising only when the list is longer than max_warnings
warn_offByOne(this, ws, e) ==
    IF max_warnings[this] > 0 /\ Len(ws) > max_warnings[this]
    THEN [warnings |-> ws, exc |-> TooManyWarningsError, emitted |-> << >>]
    ELSE [warnings |-> Append(ws, e), exc |-> "none",
          emitted |-> IF suppress_warnings[this] THEN << >> ELSE << e >>]

\* warn pushing the record before it tests the limit
warn_pushFirst(this, ws, e) ==
    IF max_warnings[this] > 0 /\ Len(ws) >= max_warnings[this]
    THEN [warnings |-> Append(ws, e), exc |-> TooManyWarningsError, emitted |-> << >>]
    ELSE [warnings |-> Append(ws, e), exc |-> "none",
          emitted |-> IF suppress_warnings[this] THEN << >> ELSE << e >>]

\* warn: [warnings, exc, emitted] after warn(e) on a document whose list is ws;
\* emitted is what the call writes to the warning stream
warn(this, ws, e) ==
    IF max_warnings[this] > 0 /\ Len(ws) >= max_warnings[this]
    THEN [warnings |-> ws, exc |-> TooManyWarningsError, emitted |-> << >>]
    ELSE [warnings |-> Append(ws, e), exc |-> "none",
          emitted |-> IF suppress_warnings[this] THEN << >> ELSE << e >>]

-----------------------------------------------------------------------------
(* copyForeignObject.                                                      *)

\* the working state a call starts from
CallState(this) ==
    [objects |-> objects, oc |-> NewObjCopier, uid |-> -1,
     csdp |-> copied_stream_data_provider[this], warnings |-> warnings[this],
     exc |-> "none", result |-> newNull, descended |-> << >>, rewrites |-> 0,
     pass2 |-> FALSE]

\* copierOf with a copier that does not outlive the call
copierOf_fresh(this, uid) == NewObjCopier

\* copierOf with one copier for all sources: the entry made first answers every uid
copierOf_shared(this, uid) ==
    IF DOMAIN object_copiers[this] = {} THEN NewObjCopier
    ELSE object_copiers[this][CHOOSE k \in DOMAIN object_copiers[this] :
                                 \A j \in DOMAIN object_copiers[this] : k <= j]

\* m->object_copiers[uid]: the entry, default-constructed when absent
copierOf(this, uid) ==
    IF uid \in DOMAIN object_copiers[this] THEN object_copiers[this][uid] ELSE NewObjCopier

\* copyResult answering an unmapped identifier with null and no warning
copyResult_noWarning(w, this, foreign) ==
    IF foreign.og \notin DOMAIN w.oc.object_map THEN [w EXCEPT !.result = newNull]
    ELSE [w EXCEPT !.result = w.oc.object_map[foreign.og]]

\* the value returned after pass 2 (lines 678-684)
copyResult(w, this, foreign) ==
    IF foreign.og \notin DOMAIN w.oc.object_map
    THEN LET r == warn(this, w.warnings, damagedPDF(this, PagesWarning))
         IN [w EXCEPT !.warnings = r.warnings, !.exc = r.exc, !.result = newNull]
    ELSE [w EXCEPT !.result = w.oc.object_map[foreign.og]]

\* foreignCheck without the comparison of the owning document with this one
foreignCheck_directOnly(this, foreign) ==
    IF ~isIndirect(foreign) THEN DirectHandleError ELSE "none"

\* the checks on the handle passed in (lines 642-650)
foreignCheck(this, foreign) ==
    IF ~isIndirect(foreign) THEN DirectHandleError
    ELSE IF foreign.doc = this THEN NotForeignError
    ELSE "none"

\* copyForeignObject(foreign) on document `this`: the working state at return or throw
copyForeignObject(this, foreign) ==
    IF foreignCheck(this, foreign) # "none"
    THEN [CallState(this) EXCEPT !.exc = foreignCheck(this, foreign)]
    ELSE
      LET uid == unique_id[foreign.doc]
          w0 == [CallState(this) EXCEPT !.uid = uid, !.oc = copierOf(this, uid)]
      IN
      IF w0.oc.visiting # {} THEN [w0 EXCEPT !.exc = VisitingNotEmptyError]
      ELSE
        LET w1 == reserveObjects(w0, this, foreign, TRUE) IN
        IF w1.exc # "none" THEN w1
        ELSE IF w1.oc.visiting # {} THEN [w1 EXCEPT !.exc = VisitingNotEmptyError]
        ELSE
          LET w2 == copyEach([w1 EXCEPT !.pass2 = TRUE], this, w1.oc.to_copy) IN
          IF w2.exc # "none" THEN w2
          ELSE copyResult([w2 EXCEPT !.oc.to_copy = << >>], this, foreign)

\* what a pipeStreamData call did: its return value, the input source it read,
\* the calls it made on the pipeline
NoPipe == [ok |-> FALSE, file |-> 0, offset |-> 0, length |-> 0, read |-> 0,
           decrypt |-> FALSE, writes |-> 0, finishes |-> 0, via |-> "none",
           pipeline |-> [write |-> "ok", finish |-> "ok"]]

NoCall == [op |-> "none", this |-> "", arg |-> newNull, exc |-> "none", result |-> newNull,
           allocated |-> 0, descended |-> << >>, rewrites |-> 0, pass2 |-> FALSE,
           again |-> FALSE, pipe |-> NoPipe, emitted |-> << >>, value |-> << >>,
           resolves |-> << >>]

\* the handles a caller may pass: the source's objects, an object of the
\* destination itself, and a direct value
CopyArgs(this, src) ==
    {Indirect(src, og) : og \in DOMAIN objects[src]}
        \cup {Indirect(this, 1), Direct(IntValue)}

\* history: the handle each foreign handle was first answered with; and, for
\* each local stream a call created, the foreign stream it copies and the input
\* source its document had during that call
NoHistory == [returned |-> EmptyMap, streams |-> EmptyMap]

Recorded(foreign, w) ==
    IF foreign \in DOMAIN history.returned THEN history.returned
    ELSE (foreign :> w.result) @@ history.returned

NewStreams(this, w) ==
    {og \in (Len(objects[this]) + 1)..Len(w.objects[this]) : w.objects[this][og].t = "stream"}

HistoryAfter(this, foreign, w) ==
    IF w.exc # "none" \/ w.uid = -1 THEN history
    ELSE [returned |-> IF isPagesObject(objects, foreign) THEN history.returned
                       ELSE Recorded(foreign, w),
          streams |-> [og \in NewStreams(this, w) |->
                          [foreign |-> CHOOSE f \in DOMAIN w.oc.object_map :
                                          w.oc.object_map[f].og = og,
                           file |-> file_sp[foreign.doc]]]
                      @@ history.streams]

CopyForeignObject(this, src) ==
    \E foreign \in CopyArgs(this, src) :
      \E w \in {copyForeignObject(this, foreign)} :
        /\ Len(warnings[this]) < MaxWarnings
        /\ objects' = w.objects
        /\ object_copiers' =
             IF w.uid = -1 THEN object_copiers
             ELSE [object_copiers EXCEPT ![this] = (w.uid :> w.oc) @@ @]
        /\ copied_stream_data_provider' = [copied_stream_data_provider EXCEPT ![this] = w.csdp]
        /\ warnings' = [warnings EXCEPT ![this] = w.warnings]
        /\ last' = [NoCall EXCEPT !.op = "copyForeignObject", !.this = this, !.arg = foreign,
                                  !.exc = w.exc,
                                  !.result = IF w.exc = "none" THEN w.result ELSE newNull,
                                  !.allocated = Len(w.objects[this]) - Len(objects[this]),
                                  !.descended = w.descended, !.rewrites = w.rewrites,
                                  !.pass2 = w.pass2,
                                  !.again = foreign \in DOMAIN history.returned]
        /\ history' = HistoryAfter(this, foreign, w)
        /\ UNCHANGED << max_warnings, suppress_warnings, immediate_copy_from, file_sp,
                        inputs, unique_id, encp >>
        /\ UNCHANGED context

-----------------------------------------------------------------------------
(* The source documents the copier is run on.                              *)

RECURSIVE SortedSeq(_)
\* the elements of a set of numbers in increasing order (dictionary keys are ordered)
SortedSeq(S) ==
    IF S = {} THEN << >>
    ELSE LET m == CHOOSE x \in S : \A y \in S : x <= y
         IN << m >> \o SortedSeq(S \ {m})

Refs(doc, kids) == LET q == SortedSeq(kids) IN [i \in 1..Len(q) |-> Indirect(doc, q[i])]

InputData(og) == [NoData EXCEPT !.offset = 10 * og, !.length = 4]

\* a source object of the given kind referring to the objects `kids`
SourceValue(doc, og, kind, kids) ==
    LET refs == Refs(doc, kids) IN
    CASE kind = "dict" -> Value("dict", "", refs, NoData)
      [] kind = "page" -> Value("dict", "Page", refs, NoData)
      [] kind = "pages" -> Value("dict", "Pages", refs, NoData)
      [] kind = "array" ->
           Value("array", "",
                 refs \o << Direct(Value("array", "", refs \o << Direct(IntValue) >>, NoData)) >>,
                 NoData)
      [] kind = "stream" -> Value("stream", "", refs, InputData(og))
      [] kind = "int" -> IntValue
      [] kind = "reserved" -> ReservedValue

KidSets == {K \in SUBSET ForeignIds : Cardinality(K) <= MaxKids}

Catalog == Value("dict", "", << >>, NoData)

\* the threads that construct further documents
Threads == {"t1", "t2"}

\* a thread that is not inside QPDF::QPDF(): the value it fetched, the unique ids of
\* the documents it has constructed and of those it has destroyed since
NoConstructor == [pc |-> "idle", fetched |-> 0, ids |-> << >>, destroyed |-> {}]

\* the rest of the Members of the documents `docs` after construction and parsing;
\* every constructed document took one value of the static counter
InitContext(docs) ==
    /\ in_parse = [d \in docs |-> FALSE]
    /\ fixed_dangling_refs = [d \in docs |-> FALSE]
    /\ check_mode = [d \in docs |-> FALSE]
    /\ xref_resolves = [d \in docs |-> 0]
    /\ unique_id_counter = Cardinality(docs)
    /\ constructing = [t \in Threads |-> NoConstructor]

OpenInput(name) == [valid |-> TRUE, name |-> name, size |-> 100]

InvalidInputSource(name) == [valid |-> FALSE, name |-> name, size |-> 0]

Init ==
    /\ \E k1 \in {"dict", "array", "stream"},
          k2 \in {"dict", "stream", "page", "pages"},
          k3 \in {"int", "reserved", "page"},
          s1 \in SUBSET {2, 3}, s2 \in KidSets :
         objects = [d \in Docs |->
                      IF d = "D" THEN << Catalog >>
                      ELSE << SourceValue("S", 1, k1, s1), SourceValue("S", 2, k2, s2),
                              SourceValue("S", 3, k3, {}) >>]
    /\ object_copiers = [d \in Docs |-> EmptyMap]
    /\ warnings = [d \in Docs |-> << >>]
    /\ max_warnings = [d \in Docs |-> 0]
    /\ suppress_warnings = [d \in Docs |-> FALSE]
    /\ immediate_copy_from = [d \in Docs |-> FALSE]
    /\ inputs = << OpenInput("d.pdf"), OpenInput("s.pdf") >>
    /\ file_sp = [d \in Docs |-> IF d = "D" THEN 1 ELSE 2]
    /\ copied_stream_data_provider = [d \in Docs |-> NoProvider]
    /\ unique_id = [d \in Docs |-> IF d = "D" THEN 0 ELSE 1]
    /\ encp = [d \in Docs |-> [encrypted |-> FALSE]]
    /\ InitContext(DOMAIN unique_id)
    /\ last = NoCall
    /\ history = NoHistory

-----------------------------------------------------------------------------
(* Input sources and stream piping.                                        *)

\* closeInputSource: m->file_sp becomes a new InvalidInputSource
CloseInputSource(this) ==
    /\ Len(inputs) < MaxInputs
    /\ inputs' = Append(inputs, InvalidInputSource("closed input source"))
    /\ file_sp' = [file_sp EXCEPT ![this] = Len(inputs) + 1]
    /\ last' = [NoCall EXCEPT !.op = "closeInputSource", !.this = this]
    /\ UNCHANGED << objects, object_copiers, warnings, max_warnings, suppress_warnings,
                    immediate_copy_from, copied_stream_data_provider, unique_id, encp,
                    history >>
    /\ UNCHANGED context

\* what a pipeline call does: return, throw a QPDFExc, throw another std::exception
PipelineOutcomes == {"ok", "QPDFExc", "std_exception"}

Pipelines == [write : PipelineOutcomes, finish : PipelineOutcomes]

\* InputSource::read at `offset`: the number of bytes it delivers
readBytes(in, offset, length) ==
    IF offset >= in.size THEN 0
    ELSE IF in.size - offset < length THEN in.size - offset
    ELSE length

\* the exception the try block of pipeStreamData ends with, "none" when it returns true
pipeFailure(in, offset, length, pipeline) ==
    IF ~in.valid THEN "std_exception"
    ELSE IF readBytes(in, offset, length) # length THEN "QPDFExc"
    ELSE IF pipeline.write # "ok" THEN pipeline.write
    ELSE pipeline.finish

\* damagedPDF(input, ...): a qpdf_e_damaged_pdf record named after the given input
damagedPDFIn(file, message) ==
    [code |-> "damaged_pdf", filename |-> inputs[file].name, message |-> message]

\* the catch clauses of pipeStreamData with a warn whose exception is dropped
pipeCatch_swallow(failure, file, qpdf_for_warning, ws, suppress, will_retry) ==
    IF suppress \/ failure = "ok" THEN [warnings |-> ws, exc |-> "none"]
    ELSE [warnings |-> warn(qpdf_for_warning, ws,
                            damagedPDFIn(file, "stream data error")).warnings,
          exc |-> "none"]

\* the catch clauses of pipeStreamData: [warnings, exc] of qpdf_for_warning
pipeCatch(failure, file, qpdf_for_warning, ws, suppress, will_retry) ==
    IF suppress \/ failure = "ok" THEN [warnings |-> ws, exc |-> "none"]
    ELSE IF failure = "QPDFExc"
    THEN warn(qpdf_for_warning, ws, damagedPDFIn(file, "stream data error"))
    ELSE LET w1 == warn(qpdf_for_warning, ws,
                        damagedPDFIn(file, "error decoding stream data"))
         IN IF w1.exc # "none" \/ ~will_retry THEN w1
            ELSE warn(qpdf_for_warning, w1.warnings,
                      damagedPDFIn(file, "stream will be re-processed without filtering"))

\* pipeStreamData calling finish in the nested guard whether or not it was attempted
pipeStreamData_finishAgain(enc, file, qpdf_for_warning, ws, offset, length, pipeline, suppress, will_retry) ==
    LET in == inputs[file]
        failure == pipeFailure(in, offset, length, pipeline)
        read == IF in.valid THEN readBytes(in, offset, length) ELSE 0
        wrote == in.valid /\ read = length
        attempted_finish == wrote /\ pipeline.write = "ok"
        c == pipeCatch(failure, file, qpdf_for_warning, ws, suppress, will_retry)
        guarded == failure # "ok" /\ c.exc = "none"
    IN [warned |-> qpdf_for_warning,
        pipe |-> [ok |-> failure = "ok", file |-> file, offset |-> offset,
                  length |-> length, read |-> read, decrypt |-> encp[enc].encrypted,
                  writes |-> IF wrote THEN 1 ELSE 0,
                  finishes |-> (IF attempted_finish THEN 1 ELSE 0) + (IF guarded THEN 1 ELSE 0),
                  via |-> "input", pipeline |-> pipeline],
        warnings |-> c.warnings, exc |-> c.exc]

\* pipeStreamData (the static one): [pipe, warnings, exc]
pipeStreamData(enc, file, qpdf_for_warning, ws, offset, length, pipeline, suppress, will_retry) ==
    LET in == inputs[file]
        failure == pipeFailure(in, offset, length, pipeline)
        read == IF in.valid THEN readBytes(in, offset, length) ELSE 0
        wrote == in.valid /\ read = length
        attempted_finish == wrote /\ pipeline.write = "ok"
        c == pipeCatch(failure, file, qpdf_for_warning, ws, suppress, will_retry)
        guarded == failure # "ok" /\ c.exc = "none" /\ ~attempted_finish
    IN [warned |-> qpdf_for_warning,
        pipe |-> [ok |-> failure = "ok", file |-> file, offset |-> offset,
                  length |-> length, read |-> read, decrypt |-> encp[enc].encrypted,
                  writes |-> IF wrote THEN 1 ELSE 0,
                  finishes |-> (IF attempted_finish THEN 1 ELSE 0) + (IF guarded THEN 1 ELSE 0),
                  via |-> "input", pipeline |-> pipeline],
        warnings |-> c.warnings, exc |-> c.exc]

\* pipeForeignStreamData reading the input the source document has now
pipeForeignStreamData_currentInput(this, ws, foreign, pipeline, suppress, will_retry) ==
    pipeStreamData(foreign.encp, file_sp[foreign.encp], this, ws, foreign.offset,
                   foreign.length, pipeline, suppress, will_retry)

\* pipeForeignStreamData: pipe through the captured ForeignStreamData record
pipeForeignStreamData(this, ws, foreign, pipeline, suppress, will_retry) ==
    pipeStreamData(foreign.encp, foreign.file, this, ws, foreign.offset, foreign.length,
                   pipeline, suppress, will_retry)

\* a pipeline fed by something other than an input source (a buffer, a user's provider)
pipeOther(qpdf_for_warning, ws, pipeline, via) ==
    [warned |-> qpdf_for_warning,
     pipe |-> [NoPipe EXCEPT !.ok = (pipeline.write = "ok" /\ pipeline.finish = "ok"),
                             !.writes = 1,
                             !.finishes = IF pipeline.write = "ok" THEN 1 ELSE 0,
                             !.via = via, !.pipeline = pipeline],
     warnings |-> ws,
     exc |-> IF pipeline.write # "ok" THEN pipeline.write
             ELSE IF pipeline.finish # "ok" THEN pipeline.finish ELSE "none"]

\* QPDF_Stream::pipeStreamData of the stream (doc, og) with no filtering: a buffer is
\* written out, a provider is asked, otherwise the document's input is read
pipeOwnStream(doc, og, qpdf_for_warning, ws, pipeline, suppress, will_retry) ==
    LET data == objects[doc][og].data IN
    IF data.buffer # NoBuffer THEN pipeOther(qpdf_for_warning, ws, pipeline, "buffer")
    ELSE IF data.provider # "none" THEN pipeOther(qpdf_for_warning, ws, pipeline, "provider")
    ELSE pipeStreamData(doc, file_sp[doc], qpdf_for_warning, ws, data.offset, data.length,
                        pipeline, suppress, will_retry)

\* CopiedStreamDataProvider::provideStreamData for the local stream og
provideStreamData(this, ws, og, pipeline, suppress, will_retry) ==
    LET p == copied_stream_data_provider[this] IN
    IF og \in DOMAIN p.foreign_stream_data
    THEN pipeForeignStreamData(this, ws, p.foreign_stream_data[og], pipeline,
                               suppress, will_retry)
    ELSE LET foreign_stream == p.foreign_streams[og]
         IN pipeOwnStream(foreign_stream.doc, foreign_stream.og, foreign_stream.doc,
                          warnings[foreign_stream.doc], pipeline, suppress, will_retry)

\* the streams of a document
Streams(doc) == {og \in DOMAIN objects[doc] : objects[doc][og].t = "stream"}

\* piping the raw data of a stream of `this`
PipeStreamData(this) ==
    \E og \in Streams(this), pipeline \in Pipelines, suppress \in BOOLEAN, will_retry \in BOOLEAN :
      \E r \in {IF objects[this][og].data.provider = "copied"
                THEN provideStreamData(this, warnings[this], og, pipeline, suppress, will_retry)
                ELSE pipeOwnStream(this, og, this, warnings[this], pipeline,
                                   suppress, will_retry)} :
        /\ Len(warnings[this]) < MaxWarnings
        /\ warnings' = [warnings EXCEPT ![r.warned] = r.warnings]
        /\ last' = [NoCall EXCEPT !.op = "pipeStreamData", !.this = this,
                                  !.arg = Indirect(this, og), !.exc = r.exc, !.pipe = r.pipe]
        /\ UNCHANGED << objects, object_copiers, max_warnings, suppress_warnings,
                        immediate_copy_from, file_sp, inputs, copied_stream_data_provider,
                        unique_id, encp, history >>
        /\ UNCHANGED context

\* getWarnings leaving the list as it is
getWarnings_keeps(ws) == [result |-> ws, warnings |-> ws]

\* getWarnings: [result, warnings], the copy handed to the caller and the cleared list
getWarnings(ws) == [result |-> ws, warnings |-> << >>]

\* anyWarnings
anyWarnings(ws) == ws # << >>

GetWarnings(this) ==
    \E r \in {getWarnings(warnings[this])} :
      /\ warnings' = [warnings EXCEPT ![this] = r.warnings]
      /\ last' = [NoCall EXCEPT !.op = "getWarnings", !.this = this, !.value = r.result]
      /\ UNCHANGED << objects, object_copiers, max_warnings, suppress_warnings,
                      immediate_copy_from, file_sp, inputs, copied_stream_data_provider,
                      unique_id, encp, history >>
      /\ UNCHANGED context

Next == CopyForeignObject("D", "S")

Spec == Init /\ [][Next]_vars

-----------------------------------------------------------------------------
(* A second specification: one source whose stream 1 refers to the         *)
(* dictionary 2, which refers to the page tree root 3 and, in some runs,   *)
(* to the reserved object 4; what varies is the stream's data source and   *)
(* the documents' settings, and the destination also pipes its streams,    *)
(* drains its warnings and the source closes its input.                    *)

StreamDataSources ==
    {[InputData(1) EXCEPT !.buffer = b, !.provider = p] :
        b \in {NoBuffer, [kind |-> "user", doc |-> "S", og |-> 1]},
        p \in {"none", "user"}}

InitDoc ==
    /\ \E data \in StreamDataSources, kids \in {{1, 3}, {1, 3, 4}} :
         objects = [d \in Docs |->
                      IF d = "D" THEN << Catalog >>
                      ELSE << Value("stream", "", Refs("S", {2}), data),
                              SourceValue("S", 2, "dict", kids),
                              SourceValue("S", 3, "pages", {2}),
                              SourceValue("S", 4, "reserved", {}) >>]
    /\ object_copiers = [d \in Docs |-> EmptyMap]
    /\ warnings = [d \in Docs |-> << >>]
    /\ max_warnings \in {[d \in Docs |-> IF d = "D" THEN n ELSE 0] : n \in 0..MaxWarnings}
    /\ suppress_warnings = [d \in Docs |-> FALSE]
    /\ immediate_copy_from \in {[d \in Docs |-> d = "S" /\ b] : b \in BOOLEAN}
    /\ inputs = << OpenInput("d.pdf"), OpenInput("s.pdf") >>
    /\ file_sp = [d \in Docs |-> IF d = "D" THEN 1 ELSE 2]
    /\ copied_stream_data_provider = [d \in Docs |-> NoProvider]
    /\ unique_id = [d \in Docs |-> IF d = "D" THEN 0 ELSE 1]
    /\ encp = [d \in Docs |-> [encrypted |-> d = "S"]]
    /\ InitContext(DOMAIN unique_id)
    /\ last = NoCall
    /\ history = NoHistory

NextDoc ==
    \/ CopyForeignObject("D", "S")
    \/ CloseInputSource("S")
    \/ PipeStreamData("D")
    \/ GetWarnings("D")

SpecDoc == InitDoc /\ [][NextDoc]_vars

-----------------------------------------------------------------------------
(* A third specification: the destination D copies from two sources, S and *)
(* T, whose objects carry the same identifiers: object 1 refers to object  *)
(* 2, which refers back to it or is Reserved.                              *)

Sources == {"S", "T"}

\* the objects of one of the two sources
SourceObjects(doc, k1, k2) ==
    << SourceValue(doc, 1, k1, {2}),
       IF k2 = "reserved" THEN SourceValue(doc, 2, k2, {}) ELSE SourceValue(doc, 2, k2, {1}) >>

InitSources ==
    /\ \E ks \in [Sources -> {"dict", "stream"} \X {"dict", "reserved"}] :
         objects = [d \in Docs \cup Sources |->
                      IF d = "D" THEN << Catalog >>
                      ELSE SourceObjects(d, ks[d][1], ks[d][2])]
    /\ object_copiers = [d \in Docs \cup Sources |-> EmptyMap]
    /\ warnings = [d \in Docs \cup Sources |-> << >>]
    /\ max_warnings = [d \in Docs \cup Sources |-> 0]
    /\ suppress_warnings = [d \in Docs \cup Sources |-> FALSE]
    /\ immediate_copy_from = [d \in Docs \cup Sources |-> FALSE]
    /\ inputs = << OpenInput("d.pdf"), OpenInput("s.pdf"), OpenInput("t.pdf") >>
    /\ file_sp = [d \in Docs \cup Sources |-> IF d = "D" THEN 1 ELSE IF d = "S" THEN 2 ELSE 3]
    /\ copied_stream_data_provider = [d \in Docs \cup Sources |-> NoProvider]
    /\ unique_id = [d \in Docs \cup Sources |-> IF d = "D" THEN 0 ELSE IF d = "S" THEN 1 ELSE 2]
    /\ encp = [d \in Docs \cup Sources |-> [encrypted |-> FALSE]]
    /\ InitContext(DOMAIN unique_id)
    /\ last = NoCall
    /\ history = NoHistory

NextSources == \E src \in Sources : CopyForeignObject("D", src)

SpecSources == InitSources /\ [][NextSources]_vars

-----------------------------------------------------------------------------
(* A fourth specification: the caller grows the store of D with reserved   *)
(* and null slots and fills them through replaceReserved.                  *)

\* newReserved
NewReserved(this) ==
    /\ Len(objects[this]) < MaxObjects
    /\ objects' = make_indirect(objects, this, ReservedValue)
    /\ last' = [NoCall EXCEPT !.op = "newReserved", !.this = this,
                              !.result = Indirect(this, next_id(objects, this))]
    /\ UNCHANGED << object_copiers, warnings, max_warnings, suppress_warnings,
                    immediate_copy_from, file_sp, inputs, copied_stream_data_provider,
                    unique_id, encp, history >>
    /\ UNCHANGED context

\* newIndirectNull
NewIndirectNull(this) ==
    /\ Len(objects[this]) < MaxObjects
    /\ objects' = make_indirect(objects, this, NullValue)
    /\ last' = [NoCall EXCEPT !.op = "newIndirectNull", !.this = this,
                              !.result = Indirect(this, next_id(objects, this))]
    /\ UNCHANGED << object_copiers, warnings, max_warnings, suppress_warnings,
                    immediate_copy_from, file_sp, inputs, copied_stream_data_provider,
                    unique_id, encp, history >>
    /\ UNCHANGED context

\* the values a caller hands to replaceReserved
Replacements(this) ==
    {Direct(IntValue), Direct(Value("dict", "", << Indirect(this, 1) >>, NoData))}

\* replaceReserved(reserved, replacement) called on a handle of one of the slots
ReplaceReserved(this) ==
    \E og \in DOMAIN objects[this], replacement \in Replacements(this) :
      \E w \in {replaceReserved(CallState(this), this, Indirect(this, og), replacement)} :
        /\ objects' = w.objects
        /\ last' = [NoCall EXCEPT !.op = "replaceReserved", !.this = this,
                                  !.arg = Indirect(this, og), !.value = replacement,
                                  !.exc = w.exc]
        /\ UNCHANGED << object_copiers, warnings, max_warnings, suppress_warnings,
                        immediate_copy_from, file_sp, inputs, copied_stream_data_provider,
                        unique_id, encp, history >>
        /\ UNCHANGED context

NextStore == NewReserved("D") \/ NewIndirectNull("D") \/ ReplaceReserved("D")

\* the documents of Init with one source, whose objects refer to nothing
InitStore ==
    /\ Init
    /\ objects["S"] = << SourceValue("S", 1, "dict", {}), SourceValue("S", 2, "dict", {}),
                         SourceValue("S", 3, "int", {}) >>

SpecStore == InitStore /\ [][NextStore]_vars

-----------------------------------------------------------------------------
(* A fifth specification: one document, constructed and perhaps processed, *)
(* whose caller closes and installs input sources, calls the methods of    *)
(* the current input source and asks for the root.                         *)

InputMethods == {"findAndSkipNextEOL", "getName", "tell", "seek", "rewind", "read", "unreadCh"}

\* InvalidInputSource answering every method but getName with a normal return
inputCall_noThrow(in, method) ==
    [exc |-> "none", returned |-> IF method = "getName" THEN in.name ELSE ""]

\* a method of an input source: the sentinel throws from all but getName
inputCall(in, method) ==
    IF in.valid \/ method = "getName"
    THEN [exc |-> "none", returned |-> IF method = "getName" THEN in.name ELSE ""]
    ELSE [exc |-> NoInputError, returned |-> ""]

\* a call of m->file's method by a part of the library or through the document
InputSourceCall(this) ==
    \E method \in InputMethods :
      \E r \in {inputCall(inputs[file_sp[this]], method)} :
        /\ last' = [NoCall EXCEPT !.op = "inputSource", !.this = this, !.exc = r.exc,
                                  !.value = [method |-> method, returned |-> r.returned]]
        /\ UNCHANGED << objects, object_copiers, warnings, max_warnings, suppress_warnings,
                        immediate_copy_from, file_sp, inputs, copied_stream_data_provider,
                        unique_id, encp, history >>
        /\ UNCHANGED context

\* the handle of the trailer's /Root
Root(this) == Indirect(this, 1)

CatalogTypeWarning == "catalog /Type entry missing or invalid"

\* getRoot: [objects, warnings, exc, result]
getRoot(this, objs, ws) ==
    IF Resolve(objs, Root(this)).t # "dict"
    THEN [objects |-> objs, warnings |-> ws, exc |-> NoRootError, result |-> newNull]
    ELSE IF check_mode[this] /\ Resolve(objs, Root(this)).type # "Catalog"
    THEN LET r == warn(this, ws, damagedPDF(this, CatalogTypeWarning))
         IN IF r.exc # "none"
            THEN [objects |-> objs, warnings |-> r.warnings, exc |-> r.exc, result |-> newNull]
            ELSE [objects |-> [objs EXCEPT ![this][1].type = "Catalog"],
                  warnings |-> r.warnings, exc |-> "none", result |-> Root(this)]
    ELSE [objects |-> objs, warnings |-> ws, exc |-> "none", result |-> Root(this)]

GetRoot(this) ==
    \E r \in {getRoot(this, objects, warnings[this])} :
      /\ Len(warnings[this]) < MaxWarnings
      /\ objects' = r.objects
      /\ warnings' = [warnings EXCEPT ![this] = r.warnings]
      /\ last' = [NoCall EXCEPT !.op = "getRoot", !.this = this, !.exc = r.exc,
                                !.result = r.result]
      /\ UNCHANGED << object_copiers, max_warnings, suppress_warnings, immediate_copy_from,
                      file_sp, inputs, copied_stream_data_provider, unique_id, encp, history >>
      /\ UNCHANGED context

\* parse on the installed input `name`: the header is found or not, the file has a
\* page tree or not; [objects, warnings, exc]
parse(this, objs, ws, name, header, pages) ==
    LET r == IF header THEN [warnings |-> ws, exc |-> "none"]
             ELSE warn(this, ws, [damagedPDF(this, "can't find PDF header")
                                    EXCEPT !.filename = name])
        parsed == [objs EXCEPT ![this] = IF pages THEN << Catalog >> ELSE << >>]
    IN IF r.exc # "none" THEN [objects |-> objs, warnings |-> r.warnings, exc |-> r.exc]
       ELSE IF ~pages
       THEN [objects |-> parsed, warnings |-> r.warnings, exc |-> NoPageTreeError]
       ELSE [objects |-> parsed, warnings |-> r.warnings, exc |-> "none"]

\* processInputSource on a document that has not parsed a file yet
ProcessInputSource(this) ==
    \E header \in BOOLEAN, pages \in BOOLEAN :
      /\ Len(inputs) < MaxInputs
      /\ Len(warnings[this]) < MaxWarnings
      /\ objects[this] = << >>
      /\ inputs' = Append(inputs, OpenInput("d.pdf"))
      /\ file_sp' = [file_sp EXCEPT ![this] = Len(inputs) + 1]
      /\ \E r \in {parse(this, objects, warnings[this], "d.pdf", header, pages)} :
           /\ objects' = r.objects
           /\ warnings' = [warnings EXCEPT ![this] = r.warnings]
           /\ last' = [NoCall EXCEPT !.op = "processInputSource", !.this = this, !.exc = r.exc]
      /\ UNCHANGED << object_copiers, max_warnings, suppress_warnings, immediate_copy_from,
                      copied_stream_data_provider, unique_id, encp, history >>
      /\ UNCHANGED context

\* one document, just constructed (no input, no objects) or with a parsed file
InitInput ==
    /\ \E processed \in BOOLEAN :
         /\ objects = [d \in {"D"} |-> IF processed THEN << Catalog >> ELSE << >>]
         /\ inputs = << IF processed THEN OpenInput("d.pdf")
                        ELSE InvalidInputSource("closed input source") >>
    /\ object_copiers = [d \in {"D"} |-> EmptyMap]
    /\ warnings = [d \in {"D"} |-> << >>]
    /\ max_warnings \in [{"D"} -> 0..MaxWarnings]
    /\ suppress_warnings = [d \in {"D"} |-> FALSE]
    /\ immediate_copy_from = [d \in {"D"} |-> FALSE]
    /\ file_sp = [d \in {"D"} |-> 1]
    /\ copied_stream_data_provider = [d \in {"D"} |-> NoProvider]
    /\ unique_id = [d \in {"D"} |-> 0]
    /\ encp = [d \in {"D"} |-> [encrypted |-> FALSE]]
    /\ in_parse = [d \in {"D"} |-> FALSE]
    /\ fixed_dangling_refs = [d \in {"D"} |-> FALSE]
    /\ check_mode \in [{"D"} -> BOOLEAN]
    /\ xref_resolves = [d \in {"D"} |-> 0]
    /\ unique_id_counter = 1
    /\ constructing = [t \in Threads |-> NoConstructor]
    /\ last = NoCall
    /\ history = NoHistory

NextInput ==
    \/ CloseInputSource("D")
    \/ ProcessInputSource("D")
    \/ InputSourceCall("D")
    \/ GetRoot("D")
    \/ GetWarnings("D")

SpecInput == InitInput /\ [][NextInput]_vars

-----------------------------------------------------------------------------
(* A sixth specification: the warnings, the in_parse guard and             *)
(* fixDanglingReferences of one document with a parsed file.               *)

\* the damage the library reports through warn
WarnMessages == {"can't find PDF header", "catalog /Type entry missing or invalid"}

\* warn(e) called by a part of the library
Warn(this) ==
    \E message \in WarnMessages :
      \E r \in {warn(this, warnings[this], damagedPDF(this, message))} :
        /\ Len(warnings[this]) <= MaxWarnings
        /\ warnings' = [warnings EXCEPT ![this] = r.warnings]
        /\ last' = [NoCall EXCEPT !.op = "warn", !.this = this, !.exc = r.exc,
                                  !.value = damagedPDF(this, message),
                                  !.emitted = r.emitted]
        /\ UNCHANGED << objects, object_copiers, max_warnings, suppress_warnings,
                        immediate_copy_from, file_sp, inputs, copied_stream_data_provider,
                        unique_id, encp, history >>
        /\ UNCHANGED context

\* inParse setting the flag whatever it holds
inParse_noCheck(current, v) == [in_parse |-> v, exc |-> "none"]

\* inParse(v): [in_parse, exc]
inParse(current, v) ==
    IF current = v THEN [in_parse |-> current, exc |-> ReentrantParseError]
    ELSE [in_parse |-> v, exc |-> "none"]

InParse(this) ==
    \E v \in BOOLEAN :
      \E r \in {inParse(in_parse[this], v)} :
        /\ in_parse' = [in_parse EXCEPT ![this] = r.in_parse]
        /\ last' = [NoCall EXCEPT !.op = "inParse", !.this = this, !.value = v, !.exc = r.exc]
        /\ UNCHANGED << objects, object_copiers, warnings, max_warnings, suppress_warnings,
                        immediate_copy_from, file_sp, inputs, copied_stream_data_provider,
                        unique_id, encp, history, fixed_dangling_refs, check_mode,
                        xref_resolves, unique_id_counter, constructing >>

\* fixDanglingReferences without the early return
fixDanglingReferences_always(fixed, first, second) ==
    [fixed |-> TRUE, resolves |-> IF first THEN << first >> ELSE << first, second >>]

\* fixDanglingReferences, where the calls of xref_table().resolve() return `first`
\* and `second`: [fixed, resolves], the flag and what the calls made returned
fixDanglingReferences(fixed, first, second) ==
    IF fixed THEN [fixed |-> TRUE, resolves |-> << >>]
    ELSE [fixed |-> TRUE, resolves |-> IF first THEN << first >> ELSE << first, second >>]

FixDanglingReferences(this) ==
    \E force \in BOOLEAN, first \in BOOLEAN, second \in BOOLEAN :
      \E r \in {fixDanglingReferences(fixed_dangling_refs[this], first, second)} :
        /\ fixed_dangling_refs' = [fixed_dangling_refs EXCEPT ![this] = r.fixed]
        /\ xref_resolves' = [xref_resolves EXCEPT ![this] = @ + Len(r.resolves)]
        /\ last' = [NoCall EXCEPT !.op = "fixDanglingReferences", !.this = this,
                                  !.value = force, !.resolves = r.resolves]
        /\ UNCHANGED << objects, object_copiers, warnings, max_warnings, suppress_warnings,
                        immediate_copy_from, file_sp, inputs, copied_stream_data_provider,
                        unique_id, encp, history, in_parse, check_mode, unique_id_counter,
                        constructing >>

\* one document with a parsed file, any warning limit, warnings suppressed or not
InitContextOps ==
    /\ objects = [d \in {"D"} |-> << Catalog >>]
    /\ inputs = << OpenInput("d.pdf") >>
    /\ object_copiers = [d \in {"D"} |-> EmptyMap]
    /\ warnings = [d \in {"D"} |-> << >>]
    /\ max_warnings \in [{"D"} -> 0..MaxWarnings]
    /\ suppress_warnings \in [{"D"} -> BOOLEAN]
    /\ immediate_copy_from = [d \in {"D"} |-> FALSE]
    /\ file_sp = [d \in {"D"} |-> 1]
    /\ copied_stream_data_provider = [d \in {"D"} |-> NoProvider]
    /\ unique_id = [d \in {"D"} |-> 0]
    /\ encp = [d \in {"D"} |-> [encrypted |-> FALSE]]
    /\ InitContext({"D"})
    /\ last = NoCall
    /\ history = NoHistory

NextContext ==
    \/ Warn("D")
    \/ GetWarnings("D")
    \/ InParse("D")
    \/ FixDanglingReferences("D")

SpecContext == InitContextOps /\ [][NextContext]_vars

-----------------------------------------------------------------------------
(* A seventh specification: threads constructing and destroying documents, *)
(* each constructor taking its id from the process-wide counter.           *)

\* a fetch that leaves the counter as it was
fetch_add_noIncrement(counter) == [old |-> counter, counter |-> counter]

\* std::atomic::fetch_add(1): [old, counter], one indivisible read-modify-write
\* (the counter stays below MaxIds, far from the wrap-around of its 64 bits)
fetch_add(counter) == [old |-> counter, counter |-> counter + 1]

\* QPDF::QPDF up to and including unique_id.fetch_add(1ULL)
FetchAdd(t) ==
    \E r \in {fetch_add(unique_id_counter)} :
      /\ constructing[t].pc = "idle"
      /\ unique_id_counter < MaxIds
      /\ unique_id_counter' = r.counter
      /\ constructing' = [constructing EXCEPT ![t].pc = "fetched", ![t].fetched = r.old]
      /\ UNCHANGED << objects, object_copiers, warnings, max_warnings, suppress_warnings,
                      immediate_copy_from, file_sp, inputs, copied_stream_data_provider,
                      unique_id, encp, in_parse, fixed_dangling_refs, check_mode,
                      xref_resolves, last, history >>

\* QPDF::QPDF storing the fetched value in m->unique_id
StoreUniqueId(t) ==
    /\ constructing[t].pc = "fetched"
    /\ constructing' = [constructing EXCEPT ![t].pc = "idle",
                                            ![t].ids = Append(@, constructing[t].fetched)]
    /\ UNCHANGED << objects, object_copiers, warnings, max_warnings, suppress_warnings,
                    immediate_copy_from, file_sp, inputs, copied_stream_data_provider,
                    unique_id, encp, in_parse, fixed_dangling_refs, check_mode,
                    xref_resolves, unique_id_counter, last, history >>

\* QPDF::~QPDF of a document the thread constructed
Destroy(t) ==
    \E i \in 1..Len(constructing[t].ids) :
      /\ constructing[t].ids[i] \notin constructing[t].destroyed
      /\ constructing' = [constructing EXCEPT ![t].destroyed = @ \cup {constructing[t].ids[i]}]
      /\ UNCHANGED << objects, object_copiers, warnings, max_warnings, suppress_warnings,
                      immediate_copy_from, file_sp, inputs, copied_stream_data_provider,
                      unique_id, encp, in_parse, fixed_dangling_refs, check_mode,
                      xref_resolves, unique_id_counter, last, history >>

InitIds ==
    /\ InitContextOps
    /\ max_warnings["D"] = 0
    /\ ~suppress_warnings["D"]

NextIds ==
    \E t \in Threads :
      \/ FetchAdd(t)
      \/ StoreUniqueId(t)
      \/ Destroy(t)

SpecIds == InitIds /\ [][NextIds]_vars

-----------------------------------------------------------------------------
(* An eighth specification: the destination pipes stream data straight     *)
(* from an input source, its own or the one a ForeignStreamData record     *)
(* holds, at offsets inside the input, across its end and behind it, into  *)
(* pipelines that accept or throw; the inputs get closed, warnings drained.*)

\* stream extents a caller passes: inside the input and across its end
PipeExtents == {[offset |-> 10, length |-> 4], [offset |-> 98, length |-> 4]}

\* the pipelines of this specification: one that accepts everything, and for
\* write and for finish one that throws a QPDFExc and one that throws another
\* std::exception (a pipeline whose write throws also throws in finish)
PipePipelines ==
    {p \in Pipelines : \/ p.write = "ok"
                       \/ p.finish = p.write}

\* the member pipeStreamData(og, offset, length, dict, pipeline, suppress, will_retry)
PipeStreamDataAt(this) ==
    \E extent \in PipeExtents, pipeline \in PipePipelines, suppress \in BOOLEAN,
       will_retry \in BOOLEAN :
      \E r \in {pipeStreamData(this, file_sp[this], this, warnings[this], extent.offset,
                               extent.length, pipeline, suppress, will_retry)} :
        /\ Len(warnings[this]) < MaxWarnings
        /\ warnings' = [warnings EXCEPT ![this] = r.warnings]
        /\ last' = [NoCall EXCEPT !.op = "pipeStreamData", !.this = this, !.exc = r.exc,
                                  !.pipe = r.pipe,
                                  !.value = [suppress |-> suppress, will_retry |-> will_retry]]
        /\ UNCHANGED << objects, object_copiers, max_warnings, suppress_warnings,
                        immediate_copy_from, file_sp, inputs, copied_stream_data_provider,
                        unique_id, encp, history >>
        /\ UNCHANGED context

\* pipeForeignStreamData on a record made for a stream of `src` with the input
\* `src` has now
PipeForeignStreamData(this, src) ==
    \E extent \in PipeExtents, pipeline \in PipePipelines, suppress \in BOOLEAN,
       will_retry \in BOOLEAN :
      \E r \in {pipeForeignStreamData(this, warnings[this],
                    ForeignStreamData(src, 1, extent, Catalog),
                    pipeline, suppress, will_retry)} :
        /\ Len(warnings[this]) < MaxWarnings
        /\ warnings' = [warnings EXCEPT ![this] = r.warnings]
        /\ last' = [NoCall EXCEPT !.op = "pipeForeignStreamData", !.this = this,
                                  !.exc = r.exc, !.pipe = r.pipe,
                                  !.value = [suppress |-> suppress, will_retry |-> will_retry]]
        /\ UNCHANGED << objects, object_copiers, max_warnings, suppress_warnings,
                        immediate_copy_from, file_sp, inputs, copied_stream_data_provider,
                        unique_id, encp, history >>
        /\ UNCHANGED context

InitPipe ==
    /\ objects = [d \in Docs |-> IF d = "D" THEN << Catalog >>
                                 ELSE << SourceValue("S", 1, "stream", {}) >>]
    /\ object_copiers = [d \in Docs |-> EmptyMap]
    /\ warnings = [d \in Docs |-> << >>]
    /\ max_warnings \in {[d \in Docs |-> IF d = "D" THEN n ELSE 0] : n \in 0..MaxWarnings}
    /\ suppress_warnings = [d \in Docs |-> FALSE]
    /\ immediate_copy_from = [d \in Docs |-> FALSE]
    /\ inputs = << OpenInput("d.pdf"), OpenInput("s.pdf") >>
    /\ file_sp = [d \in Docs |-> IF d = "D" THEN 1 ELSE 2]
    /\ copied_stream_data_provider = [d \in Docs |-> NoProvider]
    /\ unique_id = [d \in Docs |-> IF d = "D" THEN 0 ELSE 1]
    /\ encp = [d \in Docs |-> [encrypted |-> FALSE]]
    /\ InitContext(DOMAIN unique_id)
    /\ last = NoCall
    /\ history = NoHistory

NextPipe ==
    \/ PipeStreamDataAt("D")
    \/ PipeForeignStreamData("D", "S")
    \/ CloseInputSource("D")
    \/ CloseInputSource("S")
    \/ GetWarnings("D")

SpecPipe == InitPipe /\ [][NextPipe]_vars

-----------------------------------------------------------------------------
(* Claims about the foreign copier. The destination is D, the source S.    *)

\* the copier D keeps for S
Copier == copierOf("D", unique_id["S"])

\* the last operation was copyForeignObject on D
CopyDone == last.op = "copyForeignObject" /\ last.this = "D"

\* ... on a handle owned by S
CopiedForeign == CopyDone /\ last.arg.ind /\ last.arg.doc = "S"

\* ... and it returned
CopyReturned == CopiedForeign /\ last.exc = "none"

RECURSIVE HandlesIn(_)
\* the indirect handles a value holds, those inside its direct containers included
HandlesIn(v) ==
    UNION {IF v.items[i].ind THEN {v.items[i]} ELSE HandlesIn(v.items[i].val) :
             i \in 1..Len(v.items)}

\* the source objects a source object refers to
RefersTo(og) == {h.og : h \in HandlesIn(objects["S"][og])}

RECURSIVE Closure(_, _, _)
\* the handles reached from `frontier` through the values of the handles that `Enter` admits
Closure(Enter(_), frontier, seen) ==
    IF frontier \subseteq seen THEN seen
    ELSE Closure(Enter,
                 UNION {HandlesIn(Resolve(objects, h)) : h \in {x \in frontier \ seen : Enter(x)}},
                 seen \cup frontier)

\* the foreign handles a traversal from `top` meets when it stops at page tree
\* nodes and at page objects below the top
Traversed(top) ==
    LET Enter(h) == ~isPagesObject(objects, h) /\ (h = top \/ ~isPageObject(objects, h))
    IN Closure(Enter, {top}, {})

\* C1: a successful copyForeignObject of a handle that an earlier successful call
\* was given (not a /Pages object) returns the handle that call returned and
\* allocates no identifier in the destination
C1_Idempotent ==
    [][(last'.op = "copyForeignObject" /\ last'.this = "D" /\ last'.exc = "none"
          /\ last'.arg \in DOMAIN history.returned)
       => (/\ last'.result = history.returned[last'.arg]
           /\ last'.result.ind /\ last'.result.doc = "D"
           /\ Len(objects'["D"]) = Len(objects["D"]))]_vars

\* a repeated copy of a container that refers to other objects, after another
\* handle was copied as well
C1_Witness ==
    /\ CopyReturned /\ last.again /\ last.allocated = 0
    /\ RefersTo(last.arg.og) # {}
    /\ Cardinality(DOMAIN history.returned) >= 2

RECURSIVE EdgesPreserved(_, _, _)
\* every reference of the foreign value fv to a mapped object is, at the same
\* place of the local value lv, a reference to the local identifier it is mapped to
EdgesPreserved(map, fv, lv) ==
    /\ Len(lv.items) = Len(fv.items)
    /\ \A i \in 1..Len(fv.items) :
         LET f == fv.items[i]
             l == lv.items[i]
         IN IF f.ind
            THEN f.og \in DOMAIN map => (l.ind /\ l.doc = "D" /\ l.og = map[f.og].og)
            ELSE ~l.ind /\ EdgesPreserved(map, f.val, l.val)

\* the mapped foreign objects that are neither page objects nor page tree nodes
MappedNonPage ==
    {og \in DOMAIN Copier.object_map :
        LET h == Indirect("S", og) IN ~isPageObject(objects, h) /\ ~isPagesObject(objects, h)}

\* C2: between calls (no traversal left unfinished), for every reference X -> Y
\* between mapped non-page foreign objects the local copy of X refers to the local
\* identifier mapped to Y, so cycles and shared sub-objects are preserved
C2_EdgesPreserved ==
    Copier.visiting = {} =>
      \A og \in MappedNonPage :
         EdgesPreserved(Copier.object_map, objects["S"][og],
                        objects["D"][Copier.object_map[og].og])

\* A = 1 refers to B = 2 and B refers back to A; the copy A' of A returned, and
\* following A' to its copy of B and back arrives at A'
C2_Witness ==
    /\ CopyReturned /\ last.arg.og = 1
    /\ objects["S"][1].t = "dict" /\ objects["S"][2].t = "dict" /\ objects["S"][2].type = ""
    /\ RefersTo(1) = {2} /\ RefersTo(2) = {1}
    /\ LET A == last.result
           B == objects["D"][A.og].items[1]
       IN B.ind /\ B # A /\ objects["D"][B.og].items[1] = A

\* C3: every indirect reference reachable from the handle a successful copy
\* returned names an identifier of the destination, none is owned by the source
C3_ResultIsLocal ==
    (CopyReturned /\ last.result.ind) =>
      \A h \in Closure(LAMBDA x : TRUE, {last.result}, {}) :
         h.doc = "D" /\ h.og \in DOMAIN objects["D"]

\* a returned copy from which three local objects are reachable
C3_Witness ==
    /\ CopyReturned /\ last.result.ind
    /\ Cardinality(Closure(LAMBDA x : TRUE, {last.result}, {})) >= 3

\* the identifiers of the source mapped by the step
NewlyMapped == (DOMAIN Copier.object_map') \ (DOMAIN Copier.object_map)

\* C4: a call allocates one identifier per foreign identifier it newly maps, each
\* of them met by the traversal and no page tree node; when it returns, it has
\* allocated exactly one per identifier the traversal meets that is no page tree
\* node and was not mapped before, also when the source has cycles
C4_OneIdPerVisited ==
    [][(last'.op = "copyForeignObject" /\ last'.this = "D" /\ last'.arg.ind
          /\ last'.arg.doc = "S")
       => LET met == {h.og : h \in {x \in Traversed(last'.arg) : ~isPagesObject(objects, x)}}
          IN /\ Len(objects'["D"]) - Len(objects["D"]) = Cardinality(NewlyMapped)
             /\ NewlyMapped \subseteq met
             /\ last'.exc = "none" => NewlyMapped = met \ DOMAIN Copier.object_map]_vars

\* the copy of object 1 of a cycle 1 -> 2 -> 1 allocated two identifiers
C4_Witness ==
    /\ CopyReturned /\ last.arg.og = 1 /\ last.allocated = 2
    /\ 2 \in RefersTo(1) /\ 1 \in RefersTo(2)

RECURSIVE TreeSize(_)
\* the handles pass 2 has to rewrite for a value: the value and, through its
\* direct containers, every item; an indirect item counts once and is not followed
TreeSize(v) ==
    LET size[i \in 0..Len(v.items)] ==
          IF i = 0 THEN 1
          ELSE size[i - 1] + (IF v.items[i].ind THEN 1 ELSE TreeSize(v.items[i].val))
    IN size[Len(v.items)]

RECURSIVE SumTreeSizes(_)
SumTreeSizes(ogs) ==
    IF ogs = << >> THEN 0
    ELSE TreeSize(objects["S"][Head(ogs)]) + SumTreeSizes(Tail(ogs))

\* C5: a call ends after finitely many steps on every source graph: pass 1
\* descends into each foreign identifier at most once, and pass 2 visits exactly
\* the handles of the queued values without following an indirect reference
C5_Terminates ==
    CopiedForeign =>
      /\ \A i, j \in 1..Len(last.descended) :
            last.descended[i] = last.descended[j] => i = j
      /\ last.exc = "none" => last.rewrites = SumTreeSizes(last.descended)

\* a returned copy of an object that lies on a cycle through another object
C5_Witness ==
    /\ CopyReturned /\ Len(last.descended) >= 2
    /\ \E og \in RefersTo(last.arg.og) : og # last.arg.og /\ last.arg.og \in RefersTo(og)
    /\ last.arg.og \in RefersTo(last.arg.og)

\* the step is a copyForeignObject call on D
CopyStep == last'.op = "copyForeignObject" /\ last'.this = "D"

\* the warning limit of D is reached: the next warning is the fatal one
LimitReached == max_warnings["D"] > 0 /\ Len(warnings["D"]) >= max_warnings["D"]

\* a record is the damage warning about a /Pages object
IsPagesWarning(e) == e.code = "damaged_pdf" /\ e.message = PagesWarning

\* C6: copyForeignObject of a foreign /Pages object, called as the operation
\* requires (no traversal of that source left unfinished) and with the warning
\* limit not reached, returns a null handle, appends one damage warning to the
\* destination's warnings and allocates no identifier
C6_PagesGivesNull ==
    [][(/\ CopyStep /\ last'.arg.ind /\ last'.arg.doc = "S"
        /\ isPagesObject(objects, last'.arg)
        /\ Copier.visiting = {}
        /\ ~LimitReached)
       => (/\ last'.exc = "none"
           /\ last'.result = newNull
           /\ Len(warnings'["D"]) = Len(warnings["D"]) + 1
           /\ SubSeq(warnings'["D"], 1, Len(warnings["D"])) = warnings["D"]
           /\ IsPagesWarning(warnings'["D"][Len(warnings'["D"])])
           /\ objects'["D"] = objects["D"]
           /\ DOMAIN Copier.object_map' = DOMAIN Copier.object_map)]_vars

\* the page tree root was copied into a destination that has a warning limit and
\* holds copies of other objects: null came back and the warning is pending
C6_Witness ==
    /\ CopyReturned /\ isPagesObject(objects, last.arg) /\ last.result = newNull
    /\ max_warnings["D"] > 0 /\ DOMAIN Copier.object_map # {}
    /\ warnings["D"] # << >> /\ IsPagesWarning(warnings["D"][Len(warnings["D"])])

\* the page tree nodes of the source
PagesNodes == {og \in DOMAIN objects["S"] : isPagesObject(objects, Indirect("S", og))}

RECURSIVE NullWherePages(_, _)
\* where the foreign value fv refers to a page tree node, the local value lv holds
\* a direct null
NullWherePages(fv, lv) ==
    /\ Len(lv.items) = Len(fv.items)
    /\ \A i \in 1..Len(fv.items) :
         LET f == fv.items[i]
             l == lv.items[i]
         IN IF f.ind THEN f.og \in PagesNodes => l = newNull
            ELSE ~l.ind /\ NullWherePages(f.val, l.val)

\* C7: a successful copy of a foreign object L that is no page tree node returns
\* the local copy of L, in which every entry that referred to a /Pages object P
\* is a null value; P has no entry in object_map, hence no local identifier
C7_PagesRefBecomesNull ==
    (CopyReturned /\ last.arg.og \notin PagesNodes) =>
      /\ last.arg.og \in DOMAIN Copier.object_map
      /\ last.result = Copier.object_map[last.arg.og]
      /\ last.result.ind /\ last.result.doc = "D"
      /\ NullWherePages(objects["S"][last.arg.og], objects["D"][last.result.og])
      /\ PagesNodes \cap DOMAIN Copier.object_map = {}

\* a dictionary that refers to a page tree node and to another object was
\* copied: its copy holds a null and a local reference
C7_Witness ==
    /\ CopyReturned /\ last.arg.og \notin PagesNodes
    /\ objects["S"][last.arg.og].t = "dict"
    /\ \E i, j \in 1..Len(objects["S"][last.arg.og].items) :
         /\ objects["S"][last.arg.og].items[i].og \in PagesNodes
         /\ objects["D"][last.result.og].items[i] = newNull
         /\ objects["D"][last.result.og].items[j].ind

\* C8: copyForeignObject given a direct handle, or a handle of the destination
\* itself, raises the logic error of that case and leaves the destination as it
\* was: no identifier allocated, no copier created or changed, no warning added
C8_MisuseRejected ==
    [][(CopyStep /\ (~last'.arg.ind \/ last'.arg.doc = "D"))
       => (/\ last'.exc = (IF ~last'.arg.ind THEN DirectHandleError ELSE NotForeignError)
           /\ last'.exc \in LogicErrors
           /\ UNCHANGED << objects, object_copiers, warnings,
                           copied_stream_data_provider >>)]_vars

\* a handle of the destination itself was refused after objects had been copied
C8_Witness ==
    /\ CopyDone /\ last.arg.ind /\ last.arg.doc = "D" /\ last.exc = NotForeignError
    /\ DOMAIN Copier.object_map # {} /\ Len(objects["D"]) > 1

\* the Reserved objects the traversal from `top` meets
ReservedMet(top) == {h \in Traversed(top) : Resolve(objects, h).t = "reserved"}

\* C9: when the handle passed in, or an object the pass-1 traversal meets, is
\* Reserved, the call raises a logic error and pass 2 is not run: no slot of the
\* destination that existed before the call has another value afterwards
C9_ReservedRefused ==
    [][(CopyStep /\ last'.arg.ind /\ last'.arg.doc = "S" /\ ReservedMet(last'.arg) # {})
       => (/\ last'.exc \in LogicErrors
           /\ ~last'.pass2 /\ last'.rewrites = 0
           /\ \A og \in DOMAIN objects["D"] : objects'["D"][og] = objects["D"][og])]_vars

\* a Reserved object below the top was met after pass 1 had reserved a slot
C9_Witness ==
    /\ CopiedForeign /\ last.exc = ForeignReservedError /\ last.allocated >= 1
    /\ Resolve(objects, last.arg).t # "reserved"

\* the local stream piped last, the foreign stream it copies, and the input
\* source that stream's document had when it was copied
PipedCopy == history.streams[last.arg.og]

\* the last operation piped a local copy of a foreign stream that is backed by
\* the input only, was copied while the source's input was open, and whose
\* source has called closeInputSource since
PipedInputBackedAfterClose ==
    /\ last.op = "pipeStreamData" /\ last.this = "D"
    /\ last.arg.og \in DOMAIN history.streams
    /\ inputs[PipedCopy.file].valid
    /\ objects["S"][PipedCopy.foreign].data.buffer = NoBuffer
    /\ objects["S"][PipedCopy.foreign].data.provider = "none"
    /\ ~immediate_copy_from["S"]
    /\ ~inputs[file_sp["S"]].valid

\* C10: piping such a stream reads `length` bytes at the recorded offset from the
\* input source captured at copy time, decrypting with the source's encryption
\* parameters, and returns success when the caller's pipeline accepts the data
C10_ReadableAfterClose ==
    PipedInputBackedAfterClose =>
      LET data == objects["S"][PipedCopy.foreign].data IN
      /\ last.pipe.via = "input"
      /\ last.pipe.file = PipedCopy.file
      /\ last.pipe.offset = data.offset /\ last.pipe.length = data.length
      /\ last.pipe.read = data.length
      /\ last.pipe.decrypt = encp["S"].encrypted
      /\ last.pipe.writes = 1
      /\ (last.pipe.pipeline.write = "ok" /\ last.pipe.pipeline.finish = "ok")
            => (last.pipe.ok /\ last.exc = "none" /\ last.pipe.finishes = 1)

\* such a stream of an encrypted source was piped with success
C10_Witness ==
    /\ PipedInputBackedAfterClose /\ last.pipe.ok /\ last.pipe.decrypt
    /\ last.pipe.read = 4 /\ last.pipe.file # file_sp["S"]

-----------------------------------------------------------------------------
(* Claims about stream data, copier state and the document context.        *)

\* the local streams the step created
StreamsCreated ==
    {og \in (Len(objects["D"]) + 1)..Len(objects'["D"]) : objects'["D"][og].t = "stream"}

\* the foreign identifier the step mapped to the local identifier og
ForeignOf(og) ==
    CHOOSE f \in DOMAIN Copier.object_map' : Copier.object_map'[f] = Indirect("D", og)

\* the copied-stream provider of D
Provider == copied_stream_data_provider["D"]

\* which of the four data sources the local stream og has after the step
SharesBuffer(og) ==
    /\ objects'["D"][og].data.buffer # NoBuffer
    /\ objects'["D"][og].data.buffer = objects'["S"][ForeignOf(og)].data.buffer
    /\ objects'["D"][og].data.provider = "none"
    /\ og \notin DOMAIN Provider.foreign_streams'
    /\ og \notin DOMAIN Provider.foreign_stream_data'

RegistersHandle(og) ==
    /\ objects'["D"][og].data.buffer = NoBuffer
    /\ objects'["D"][og].data.provider = "copied"
    /\ og \in DOMAIN Provider.foreign_streams'
    /\ Provider.foreign_streams'[og] = Indirect("S", ForeignOf(og))
    /\ og \notin DOMAIN Provider.foreign_stream_data'

RegistersRecord(og) ==
    /\ objects'["D"][og].data.buffer = NoBuffer
    /\ objects'["D"][og].data.provider = "copied"
    /\ og \notin DOMAIN Provider.foreign_streams'
    /\ og \in DOMAIN Provider.foreign_stream_data'
    /\ LET rec == Provider.foreign_stream_data'[og]
           sd == objects["S"][ForeignOf(og)].data
       IN /\ rec.foreign_og = ForeignOf(og)
          /\ rec.file = file_sp["S"] /\ rec.encp = "S"
          /\ rec.offset = sd.offset /\ rec.length = sd.length

\* C11: the data source of a stream created by a successful copy follows the
\* priority buffer, immediate_copy_from, provider, input: a buffer of the source
\* is shared; without one and with immediate_copy_from the source stream first
\* receives a buffer of its raw data (any provider it had is set aside), which is
\* shared; otherwise a provider makes the copier register the foreign handle, and
\* failing that a ForeignStreamData record; no stream is in two of the cases
C11_DataSourcePriority ==
    [][(CopyStep /\ last'.exc = "none" /\ last'.arg.ind /\ last'.arg.doc = "S")
       => \A og \in StreamsCreated :
            LET f == ForeignOf(og)
                sd == objects["S"][f].data
                unchanged == objects'["S"][f] = objects["S"][f]
            IN IF sd.buffer # NoBuffer
                 THEN unchanged /\ SharesBuffer(og)
               ELSE IF immediate_copy_from["S"]
                 THEN /\ objects'["S"][f].data.buffer # NoBuffer
                      /\ objects'["S"][f].data.provider = "none"
                      /\ SharesBuffer(og)
               ELSE IF sd.provider # "none"
                 THEN unchanged /\ RegistersHandle(og)
               ELSE unchanged /\ RegistersRecord(og)]_vars

\* the source has immediate_copy_from set and its stream, copied, holds a buffer
\* of its raw data that the local stream shares
C11_Witness ==
    /\ CopyReturned /\ immediate_copy_from["S"]
    /\ \E og \in DOMAIN objects["D"] :
         /\ objects["D"][og].t = "stream"
         /\ objects["D"][og].data.buffer = RawDataBuffer("S", 1)
         /\ objects["S"][1].data.buffer = RawDataBuffer("S", 1)
         /\ objects["S"][1].data.provider = "none"

\* the copier D keeps for the source src, read from the map itself
CopierFor(src) ==
    IF unique_id[src] \in DOMAIN object_copiers["D"]
    THEN object_copiers["D"][unique_id[src]]
    ELSE NewObjCopier

\* the other one of the two sources
OtherSource(src) == CHOOSE o \in Sources : o # src

\* C12: the copier state is kept per source: a copy from one source leaves the
\* object_map, to_copy and visiting kept for the other source as they are and is
\* refused for an unfinished traversal only when its own source has one; and no
\* local identifier is mapped from both sources, so objects that carry the same
\* identifier in both get two different local identifiers
C12_CopierPerSource ==
    [][\A src \in Sources :
         (CopyStep /\ last'.arg.ind /\ last'.arg.doc = src)
         => LET other == OtherSource(src)
            IN /\ CopierFor(other)' = CopierFor(other)
               /\ (unique_id[other] \in DOMAIN object_copiers'["D"])
                     = (unique_id[other] \in DOMAIN object_copiers["D"])
               /\ (last'.exc = VisitingNotEmptyError) = (CopierFor(src).visiting # {})
               /\ \A f \in DOMAIN CopierFor(src).object_map' :
                    \A g \in DOMAIN CopierFor(other).object_map' :
                       CopierFor(src).object_map'[f] # CopierFor(other).object_map'[g]]_vars

\* object 1 of S was copied and returned while the copier for T, which maps
\* object 1 of T to another local identifier, is left with an unfinished traversal
C12_Witness ==
    /\ CopyReturned /\ last.arg.og = 1
    /\ 1 \in DOMAIN CopierFor("S").object_map /\ 1 \in DOMAIN CopierFor("T").object_map
    /\ CopierFor("S").object_map[1] # CopierFor("T").object_map[1]
    /\ last.result = CopierFor("S").object_map[1]
    /\ CopierFor("T").visiting # {}

\* C13: replaceReserved on a handle whose slot holds neither Reserved nor Null
\* raises a logic error and leaves the store as it was; on a Reserved or Null slot
\* it puts the replacement's value in the slot, and the identifier, the number of
\* objects and all other slots stay the same
C13_ReplaceReserved ==
    [][(last'.op = "replaceReserved" /\ last'.this = "D")
       => \A og \in DOMAIN objects["D"] :
            last'.arg = Indirect("D", og) =>
              IF objects["D"][og].t \notin {"reserved", "null"}
              THEN last'.exc = ReplaceReservedError /\ objects' = objects
              ELSE /\ last'.exc = "none"
                   /\ DOMAIN objects'["D"] = DOMAIN objects["D"]
                   /\ \A o \in DOMAIN objects["D"] :
                        objects'["D"][o] =
                          IF o = og THEN last'.value.val ELSE objects["D"][o]]_vars

\* a slot made by newReserved or newIndirectNull and filled once was refused a
\* second replacement and still holds the first value
C13_Witness ==
    /\ last.op = "replaceReserved" /\ last.exc = ReplaceReservedError
    /\ last.arg.og > 1
    /\ objects["D"][last.arg.og].t = "int" /\ last.value.val.t = "dict"
    /\ \E o \in DOMAIN objects["D"] : objects["D"][o].t = "null"

\* the input source of D is the invalidated sentinel
NoInput == ~inputs[file_sp["D"]].valid

WarnStep == last'.op = "warn"

\* the limit is set and the list already holds that many records
LimitMet == max_warnings["D"] > 0 /\ Len(warnings["D"]) >= max_warnings["D"]

\* C15: with max_warnings = N > 0 a call of warn returns normally while the list
\* holds fewer than N records, adding one each time, and raises the limit error
\* once it holds N, so the first N calls return and the (N+1)-th raises; with
\* max_warnings = 0 no call raises it; the list never holds more than N records.
C15_WarningLimit ==
    [][ /\ WarnStep =>
            /\ (last'.exc = TooManyWarningsError) <=>
                   (max_warnings["D"] > 0 /\ Len(warnings["D"]) = max_warnings["D"])
            /\ last'.exc \in {"none", TooManyWarningsError}
            /\ last'.exc = "none" => Len(warnings'["D"]) = Len(warnings["D"]) + 1
            /\ max_warnings["D"] = 0 => last'.exc = "none"
        /\ max_warnings'["D"] > 0 => Len(warnings'["D"]) <= max_warnings'["D"]
      ]_vars

\* the third call of warn under a limit of two raised the limit error
C15_Witness ==
    /\ last.op = "warn"
    /\ last.exc = TooManyWarningsError
    /\ max_warnings["D"] = 2
    /\ Len(warnings["D"]) = 2

\* C16 as stated: warn adds the record to the list first and tests the limit
\* afterwards, so the record is in the list after every call, the raising one
\* included, and it is emitted only when the call did not raise and
\* suppress_warnings is false.
C16_PushedBeforeTest ==
    [][ WarnStep =>
            /\ warnings'["D"] = Append(warnings["D"], last'.value)
            /\ last'.emitted = IF last'.exc = "none" /\ ~suppress_warnings["D"]
                               THEN << last'.value >> ELSE << >>
      ]_vars

\* C16: warn tests the limit first: a call that raises the limit error leaves
\* the list as it was and emits nothing; a call that returns appends the record
\* and emits it exactly when suppress_warnings is false.
C16_TestedBeforePush ==
    [][ WarnStep =>
            IF LimitMet
            THEN /\ last'.exc = TooManyWarningsError
                 /\ warnings'["D"] = warnings["D"]
                 /\ last'.emitted = << >>
            ELSE /\ last'.exc = "none"
                 /\ warnings'["D"] = Append(warnings["D"], last'.value)
                 /\ last'.emitted = IF suppress_warnings["D"] THEN << >>
                                    ELSE << last'.value >>
      ]_vars

\* a call of warn raised the limit error and its record is not in the list
C16_Witness ==
    /\ last.op = "warn"
    /\ last.exc = TooManyWarningsError
    /\ warnings["D"] # << >>
    /\ \A i \in 1..Len(warnings["D"]) : warnings["D"][i] # last.value
    /\ ~suppress_warnings["D"]

\* C17: getWarnings returns the records warn added since the previous drain,
\* in the order they were added, and leaves the list empty: a drain returns the
\* list, warn only appends to it and nothing else changes it; a drain right
\* after a drain returns the empty list, and anyWarnings is false after a drain.
C17_Drain ==
    [][ /\ last'.op = "getWarnings" =>
            /\ last'.value = warnings["D"]
            /\ warnings'["D"] = << >>
            /\ ~anyWarnings(warnings'["D"])
            /\ last.op = "getWarnings" => last'.value = << >>
        /\ WarnStep =>
            \/ warnings'["D"] = warnings["D"]
            \/ warnings'["D"] = Append(warnings["D"], last'.value)
        /\ last'.op \notin {"getWarnings", "warn"} => warnings'["D"] = warnings["D"]
      ]_vars

\* a drain returned two different records in the order warn was given them
C17_Witness ==
    /\ last.op = "getWarnings"
    /\ Len(last.value) = 2
    /\ last.value[1].message = "can't find PDF header"
    /\ last.value[2].message = "catalog /Type entry missing or invalid"
    /\ warnings["D"] = << >>

\* C18: inParse(v) raises a logic error and leaves the flag alone when the flag
\* already equals v (setting while set, clearing while clear), and otherwise
\* sets the flag to v; only a call that returns changes the flag, so the values
\* of the calls that return alternate true, false, true, ...
C18_InParseGuard ==
    [][ /\ last'.op = "inParse" =>
            IF in_parse["D"] = last'.value
            THEN /\ last'.exc = ReentrantParseError
                 /\ last'.exc \in LogicErrors
                 /\ in_parse'["D"] = in_parse["D"]
            ELSE /\ last'.exc = "none"
                 /\ in_parse'["D"] = last'.value
        /\ in_parse'["D"] # in_parse["D"] => (last'.op = "inParse" /\ last'.exc = "none")
      ]_vars

\* inParse(true) was called while the flag was set and raised
C18_Witness ==
    /\ last.op = "inParse"
    /\ last.value = TRUE
    /\ last.exc = ReentrantParseError
    /\ in_parse["D"]

\* everything but the record of the last call
DocumentState ==
    << objects, object_copiers, warnings, max_warnings, suppress_warnings,
       immediate_copy_from, file_sp, inputs, copied_stream_data_provider, unique_id,
       encp, in_parse, fixed_dangling_refs, check_mode, xref_resolves,
       unique_id_counter, constructing, history >>

\* C20: the first call of fixDanglingReferences calls resolve once, a second
\* time only if the first call returned false, and sets fixed_dangling_refs;
\* every later call returns without calling resolve and changes no state.
C20_FixOnce ==
    [][ last'.op = "fixDanglingReferences" =>
            IF fixed_dangling_refs["D"]
            THEN /\ last'.resolves = << >>
                 /\ DocumentState' = DocumentState
            ELSE /\ Len(last'.resolves) \in {1, 2}
                 /\ Len(last'.resolves) = 2 <=> ~last'.resolves[1]
                 /\ xref_resolves'["D"] = xref_resolves["D"] + Len(last'.resolves)
                 /\ fixed_dangling_refs'["D"]
      ]_vars

\* a later call found the flag set after a first call that resolved twice
C20_Witness ==
    /\ last.op = "fixDanglingReferences"
    /\ last.resolves = << >>
    /\ fixed_dangling_refs["D"]
    /\ xref_resolves["D"] = 2


\* the ids taken by a thread: those of the documents it made and the one its
\* running constructor has fetched
IdsTaken(t) ==
    {constructing[t].ids[i] : i \in 1..Len(constructing[t].ids)}
        \cup (IF constructing[t].pc = "fetched" THEN {constructing[t].fetched} ELSE {})

\* the number of ids a thread has taken
NumTaken(t) ==
    Len(constructing[t].ids) + (IF constructing[t].pc = "fetched" THEN 1 ELSE 0)

\* every id handed out so far, to a document alive or destroyed
AllIdsTaken == UNION {IdsTaken(t) : t \in Threads} \cup {unique_id[d] : d \in DOMAIN unique_id}

\* C19: any two documents constructed in the process have different unique ids,
\* also when their constructors interleave: the ids one thread took are pairwise
\* different, those of two threads are disjoint and differ from the ids of the
\* documents that exist already; every fetch returns a value greater than every
\* id handed out before, those of destroyed documents included.
C19_UniqueIds ==
    /\ [](/\ \A t \in Threads : Cardinality(IdsTaken(t)) = NumTaken(t)
          /\ \A t \in Threads : \A u \in Threads \ {t} : IdsTaken(t) \cap IdsTaken(u) = {}
          /\ \A t \in Threads : \A d \in DOMAIN unique_id : unique_id[d] \notin IdsTaken(t)
          /\ \A t \in Threads : constructing[t].destroyed \subseteq IdsTaken(t)
          /\ \A id \in AllIdsTaken : id < unique_id_counter)
    /\ [][\A t \in Threads :
            (constructing[t].pc = "idle" /\ constructing'[t].pc = "fetched") =>
                /\ \A id \in AllIdsTaken : constructing'[t].fetched > id
                /\ unique_id_counter' = unique_id_counter + 1]_vars

\* both constructors have fetched before either stored its id, after an earlier
\* document was destroyed
C19_Witness ==
    /\ constructing["t1"].pc = "fetched"
    /\ constructing["t2"].pc = "fetched"
    /\ constructing["t1"].fetched # constructing["t2"].fetched
    /\ \E t \in Threads : constructing[t].destroyed # {}


-----------------------------------------------------------------------------
(* Claims about piping, the slots of pass 1, pages and the copier state.   *)

\* a step of pipeStreamData or pipeForeignStreamData in SpecPipe
PipeStep == last'.op \in {"pipeStreamData", "pipeForeignStreamData"}

\* seek, read of all `length` bytes, write and finish of the call p all succeeded
AllSucceeded(p) ==
    /\ inputs[p.file].valid
    /\ p.read = p.length
    /\ p.pipeline.write = "ok"
    /\ p.pipeline.finish = "ok"

C25_FinishOnce ==
    [][ (PipeStep /\ last'.exc = "none") =>
            LET p == last'.pipe IN
            /\ p.finishes = 1
            /\ p.writes = IF inputs[p.file].valid /\ p.read = p.length THEN 1 ELSE 0
            /\ p.read # p.length => p.writes = 0
            /\ p.writes <= 1
      ]_vars

\* finish itself threw after a full read and a write, the call returned false
\* and finish was not called a second time
C25_Witness ==
    /\ last.op = "pipeStreamData"
    /\ last.exc = "none"
    /\ ~last.pipe.ok
    /\ last.pipe.read = last.pipe.length
    /\ last.pipe.pipeline.write = "ok"
    /\ last.pipe.pipeline.finish = "std_exception"
    /\ last.pipe.finishes = 1


\* a step of copyForeignObject on D with a handle owned by S
ForeignCopyStep ==
    last'.op = "copyForeignObject" /\ last'.this = "D" /\ last'.arg.ind /\ last'.arg.doc = "S"

\* the identifiers the step queued in to_copy
Queued == {last'.descended[i] : i \in 1..Len(last'.descended)}

\* the local slot a foreign identifier is mapped to after the step
SlotAfter(og) == objects'["D"][Copier.object_map'[og].og]

\* the slots pass 1 made and pass 2 did not replace: those of a call that
\* raised in pass 1, and those of the pages met below the top
AsReserved(og) == og \in NewlyMapped /\ (~last'.pass2 \/ og \notin Queued)

PageReentry ==
    /\ isPageObject(objects, last'.arg)
    /\ last'.arg.og \in DOMAIN Copier.object_map
    /\ isNull(objects, Copier.object_map[last'.arg.og])

\* C23: a returning copyForeignObject of a foreign page that is mapped to a slot
\* holding null queues the page, traverses it (its unmapped descendants get
\* slots), and returns the identifier of the earlier mapping, whose slot now
\* holds the page dictionary with its references translated; a returning call on
\* any other mapped object queues nothing, allocates nothing and leaves the
\* destination's objects as they are.
C23_PageReentry ==
    [][ (ForeignCopyStep /\ last'.exc = "none" /\ last'.arg.og \in DOMAIN Copier.object_map) =>
            IF PageReentry
            THEN /\ last'.arg.og \in Queued
                 /\ last'.result = Copier.object_map[last'.arg.og]
                 /\ Copier.object_map'[last'.arg.og] = Copier.object_map[last'.arg.og]
                 /\ SlotAfter(last'.arg.og).type = "Page"
                 /\ EdgesPreserved(Copier.object_map', objects["S"][last'.arg.og],
                                   SlotAfter(last'.arg.og))
                 /\ \A og \in RefersTo(last'.arg.og) :
                      isPagesObject(objects, Indirect("S", og)) \/ og \in DOMAIN Copier.object_map'
            ELSE /\ Queued = {}
                 /\ last'.result = Copier.object_map[last'.arg.og]
                 /\ objects' = objects
                 /\ Copier' = Copier
      ]_vars

\* a page that an earlier copy had met below its top was copied itself: it was
\* queued although no identifier was allocated for it, and the earlier copy's
\* slot now holds the page
C23_Witness ==
    /\ CopyReturned
    /\ isPageObject(objects, last.arg)
    /\ << last.arg.og >> = last.descended
    /\ last.allocated = 0
    /\ objects["D"][last.result.og].type = "Page"
    /\ \E og \in DOMAIN Copier.object_map :
         /\ og # last.arg.og
         /\ last.result \in HandlesIn(objects["D"][Copier.object_map[og].og])

\* the pages of S the step met for the first time below its top
PagesBelowTop ==
    {og \in NewlyMapped : og # last'.arg.og /\ isPageObject(objects, Indirect("S", og))}

C26_CopierClean ==
    \A uid \in DOMAIN object_copiers["D"] :
        /\ object_copiers["D"][uid].visiting = {}
        /\ object_copiers["D"][uid].to_copy = << >>

\* the elements of a sequence are pairwise different
NoDuplicates(q) == \A i \in 1..Len(q) : \A j \in 1..Len(q) : q[i] = q[j] => i = j

\* C27: object_map is injective (two foreign identifiers never share a local
\* identifier) and stable (a mapped identifier keeps its local handle through
\* every later call), and what a call queues in to_copy holds each identifier
\* once and only identifiers that are in object_map.
C27_MapInjectiveStable ==
    /\ [](\A f \in DOMAIN Copier.object_map : \A g \in DOMAIN Copier.object_map :
              Copier.object_map[f] = Copier.object_map[g] => f = g)
    /\ [](/\ NoDuplicates(Copier.to_copy)
          /\ \A i \in 1..Len(Copier.to_copy) :
                 Copier.to_copy[i].og \in DOMAIN Copier.object_map)
    /\ [][ /\ \A f \in DOMAIN Copier.object_map :
                 /\ f \in DOMAIN Copier.object_map'
                 /\ Copier.object_map'[f] = Copier.object_map[f]
           /\ ForeignCopyStep =>
                 /\ NoDuplicates(last'.descended)
                 /\ Queued \subseteq DOMAIN Copier.object_map'
         ]_vars

\* after three returning calls the map holds three identifiers, the last call
\* having queued a page that an earlier call had mapped
C27_Witness ==
    /\ CopyReturned
    /\ Cardinality(DOMAIN Copier.object_map) = 3
    /\ Cardinality({Copier.object_map[f] : f \in DOMAIN Copier.object_map}) = 3
    /\ last.descended # << >>
    /\ last.allocated < Len(last.descended)

\* the source stream og had no buffer and has its raw data in a buffer after the step
BufferedByCopy(og) ==
    /\ objects["S"][og].t = "stream"
    /\ objects["S"][og].data.buffer = NoBuffer
    /\ objects'["S"][og] =
          [objects["S"][og] EXCEPT !.data = [@ EXCEPT !.buffer = RawDataBuffer("S", og),
                                                      !.provider = "none"]]

====
